---- MODULE Spec2Model ----
(***************************************************************************)
(* A model of compress_wi_primes: the growable bit buffer (DynBitString),  *)
(* the two variable-length integer codecs (SmallIntEncoding, U32Encoding), *)
(* the factor encoder/decoder (encode_factors / decode_factors) and the    *)
(* prime table engine (factor, gen_primes_in_range, gen_primes_up_to,      *)
(* shard_prime_calc, parallel_calc_primes).                                *)
(*                                                                         *)
(* TLC integers are 32-bit signed, so a u32 that may exceed 2^31-1 (the    *)
(* operand of U32Encoding) is kept as two 16-bit halves [hi, lo] and the   *)
(* code's shifts, masks and ors are computed on the halves.                *)
(***************************************************************************)
EXTENDS Integers, Sequences, FiniteSets, TLC

VARIABLES
    overflow_checks, \* TRUE: a build that panics on integer overflow (debug); FALSE: one that wraps (release)
    \* --- a codec session: values appended to one buffer, then read back
    bstr,            \* the DynBitString the encoders append to
    cursor,          \* bitstring_cursor of the reads
    written,         \* what was appended: <<[kind, v, end]>>, end = bstr.cnt right after the append
    readvals,        \* the values the reads returned, in order
    last_in,         \* [kind, v] of the latest append_uint32 call, <<>> before the first
    cstatus,         \* "ok", or "panic" once an assert of the session failed
    \* --- one encode_factors / decode_factors call pair
    enc_in,          \* v, the index sequence handed to encode_factors
    enc_bs,          \* the DynBitString encode_factors returned
    enc_status,      \* "idle", "encoded", "decoded", "enc_panic", "dec_panic", and for a decode of a
                     \* shortened buffer "truncated", "trunc_decoded", "trunc_panic"
    dec_out,         \* the Vec<u32> decode_factors returned (entries as halves)
    \* --- one call of factor(n, prms), statement by statement
    f_n,             \* n, a u32 as halves
    f_prms,          \* prms, the prime table
    f_pc,            \* "start", "loop" (top of the outer while), "scan" (inner while), "after", "done"
    f_idx,           \* next_prime_index_to_try
    f_num,           \* num_to_factor, a u32 as halves
    f_factors,       \* factors
    f_divs,          \* how many trial divisions (num_to_factor % p) were made
    f_result,        \* "none", "Ok", "NotEnoughPrimesToFactorIt", "NIsBigPrime", "AlgorithmFailed", "panic"
    \* --- one call of gen_primes_up_to(n), one loop iteration per step
    g_n,             \* n
    g_prms,          \* prms
    g_pc,            \* "loop", "done", "panic"
    \* --- one call of parallel_calc_primes(nthreads, highest_candidate)
    p_n,             \* highest_candidate
    p_nthreads,      \* nthreads
    p_pc,            \* the coordinator: "setup", "spawn", "collect", "join", "returned", "panic", "wrapped"
    p_cause,         \* why the coordinator panicked, "" while it has not
    p_pbr,           \* prime_base_range
    p_base,          \* base_prms
    p_count,         \* per_thread_range_count
    p_ranges,        \* small_ranges
    p_prms,          \* prms, the table being merged
    p_k,             \* k of the collection loop
    p_t,             \* t of the collection loop
    p_log,           \* the indices into small_ranges of the results appended so far, in order
    p_wstate,        \* per worker: "running", "done", "panicked"
    p_wpos,          \* per worker: how many of its chunks it has processed
    p_chan,          \* per worker: the messages sent and not yet received
    \* --- one call of shard_prime_calc and the candidate count taken over its result
    s_chunks,        \* chunks
    s_upper,         \* prime_upper_bound
    s_lower,         \* prime_lower_bound
    s_pc,            \* "call", "count", "done" (the count was taken and asserted), "panic"
    s_cause,         \* why the caller panicked, "" while it has not
    s_ranges,        \* the Vec<PrimeComputeRange> returned
    \* --- the prime table file of one upper bound, and one write_primes / read_primes pair
    fs_file,         \* the file at prime_data_pathname(upper_bound): [exists, recs, tail]
    io_prms,         \* prms handed to write_primes, as runs <<[v, reps]>>: v repeated reps times
    io_pc,           \* "write", "read", "done"
    io_wres,         \* what write_primes did: "none", "Ok", "Err", "panic"
    io_read,         \* what read_primes returned: [ok, prms]
    \* --- one run of a table-building driver (main.rs, bin/generate_primes.rs)
    d_n,             \* LARGEST_UINT, the upper bound
    d_nthreads,      \* NTHREADS
    d_pc,            \* "load", "generate", "use", "done", "abort" (the process panicked)
    d_read,          \* what read_primes returned: "none", "Ok", "OkEmpty" (Ok of an empty table), "Err"
    d_wres,          \* what write_primes did: "none", "Ok", "Err", "panic"
    d_prms,          \* prms of the driver, as runs
    d_trace,         \* the stages entered so far, in order
    \* --- one call of parallel_factor_all(biggest_number, factor_threads, prms)
    fa_n,            \* biggest_number
    fa_nthreads,     \* factor_threads
    fa_prms,         \* prms, the prime table
    fa_pc,           \* the caller: "spawn", "join", "returned", "panic"
    fa_ranges,       \* child_range
    fa_k,            \* per worker: k of the loop of test_factors_in_range
    fa_w,            \* per worker: "running", "returned", "panicked"
    fa_res,          \* per worker: the value test_factors_in_range returned
    fa_active,       \* the worker whose factor(k, prms) call is under way, 0 for none
    fa_checked,      \* the integers k that were factored with the product asserted equal to k
    fa_join,         \* how many workers the caller has joined
    \* --- any sequence of operations on one DynBitString
    bb_bs,           \* the DynBitString
    bb_prev,         \* the DynBitString as it was before the latest operation
    bb_op,           \* the latest operation: [name, arg]
    bb_max,          \* the largest cnt this DynBitString has had
    bb_ones,         \* the positions that have held a 1 bit
    bb_pc,           \* "ok", or once an assert failed "panic_index" (get / set) or "panic_capacity" (append)
    bb_ops,          \* how many operations were applied
    \* --- calls of the prime-power transform and the factor encoder on one index list
    pp_in,           \* the index list v
    pp_iap,          \* factors_to_int_as_prms(v): [st, prm_powers], st "none" before the call
    pp_exp,          \* the expansion loop of decode_factors on pp_iap: [st, factors]
    pp_bs,           \* encode_factors(v): [st, bs]
    pp_fmt,          \* format_factor_encoding_as_string(v): [st, out], out a sequence of characters
    \* --- one call of gen_primes_in_range
    gr_args,         \* [old_prms, primes_up_to, lower_bound, upper_bound]
    gr_pc,           \* "call", "returned", "panic" (old_prms[0] of an empty table)
    gr_res,          \* the Result returned: [ok, prms], ok = FALSE is PrimesNotEnoughForRange
    \* --- one value written and read back by both revisions of the general codec
    rv_v,            \* the value, as halves
    rv_cur,          \* how many bits both buffers held before the value
    rv_uint,         \* the buffer encoding_uint::append_uint32 wrote to: [st, bs]
    rv_u32,          \* the buffer U32Encoding::append_uint32 wrote to: [st, bs]
    rv_reads         \* per <<reader, writer>>: what the reader's read_uint32 made of the writer's buffer

(***************************************************************************)
(* Bounds of the model.                                                    *)
(***************************************************************************)
\* how many values one codec run appends to its buffer
MaxAppends == 2
\* U32Encoding operands 0..MaxSmallV are all tried (besides the 2^k edges)
MaxSmallV == 20
\* encode_factors inputs have up to MaxRuns runs of equal indices
MaxRuns == 2
\* ... whose first index and index steps are at most MaxDelta
MaxDelta == 2
\* factor is called with 2 <= n <= MaxFactorN ...
MaxFactorN == 180
\* ... and the table of all primes up to a bound of at most MaxTableBound
MaxTableBound == 13
\* gen_primes_up_to is called with 2 <= n <= MaxGenN
MaxGenN == 60
\* parallel_calc_primes is called with 1 <= nthreads <= MaxThreads ...
MaxThreads == 2
\* ... and 2 <= highest_candidate <= MaxParN (besides a few larger ones)
MaxParN == 12

\* how many of the largest u32 values factor is run on with the table up to 65537
MaxWideNs == 8

\* shard_prime_calc is called with 1 <= chunks <= MaxChunks, a lower bound
\* of at most MaxShardLower and at most MaxShardSpan integers above it
MaxChunks == 6
MaxShardLower == 3
MaxShardSpan == 7

\* write_primes is given tables of at most MaxFileLen sample entries
MaxFileLen == 2

\* parallel_factor_all is called with 2 <= biggest_number <= MaxFaN
MaxFaN == 10

\* a DynBitString goes through at most MaxBbOps operations, clip is called
\* with a length of at most MaxClip and from_str with at most MaxStrLen bits
MaxBbOps == 3
MaxClip == 10
MaxStrLen == 3

\* gen_primes_in_range is called with the table of the primes up to
\* primes_up_to <= MaxRangeTable and bounds of at most MaxRangeUpper
MaxRangeTable == 5
MaxRangeUpper == 12

\* factor followed by encode_factors is run on every n in 2..MaxFeN (besides
\* the operands with the most and the longest runs)
MaxFeN == 30

(***************************************************************************)
(* DynBitString (src/src/dyn_bit_string.rs)                                *)
(***************************************************************************)
BITS_PER_BYTE == 8

\* 2^k for the small k the model needs
Pow2(k) == 2 ^ k

\* byte & (1 << j) != 0
ByteBit(byte, j) == (byte \div Pow2(j)) % 2 = 1

\* byte | (1 << j)
ByteSetBit(byte, j) == IF ByteBit(byte, j) THEN byte ELSE byte + Pow2(j)

\* byte & !(1 << j)
ByteClearBit(byte, j) == IF ByteBit(byte, j) THEN byte - Pow2(j) ELSE byte

\* DynBitString::null()
DbsNull == [cnt |-> 0, b |-> <<>>]

\* an index check against the backing bytes instead of the length
DbsIndexOk_WithinBytes(bs, ndx) == ndx < Len(bs.b) * BITS_PER_BYTE

\* the precondition assert of get / set: assert!(ndx < self.cnt)
DbsIndexOk(bs, ndx) == ndx < bs.cnt

\* DynBitString::get, defined when DbsIndexOk(bs, ndx)
DbsGet(bs, ndx) ==
    ByteBit(bs.b[(ndx \div BITS_PER_BYTE) + 1], ndx % BITS_PER_BYTE)

\* the capacity assertion inside append: it is evaluated only on a byte
\* boundary where no new byte is pushed
DbsAppendAssertOk(bs) ==
    (bs.cnt % BITS_PER_BYTE = 0 /\ Len(bs.b) * BITS_PER_BYTE # bs.cnt)
        => Len(bs.b) * BITS_PER_BYTE > bs.cnt

\* DynBitString::append
DbsAppend(bs, bit) ==
    LET b1 == IF bs.cnt % BITS_PER_BYTE = 0 /\ Len(bs.b) * BITS_PER_BYTE = bs.cnt
              THEN Append(bs.b, 0)
              ELSE bs.b
        cnt1 == bs.cnt + 1
        byte_index == (cnt1 - 1) \div BITS_PER_BYTE
        bit_within_byte == (cnt1 - 1) % BITS_PER_BYTE
        last_byte == b1[byte_index + 1]
        new_byte == IF bit THEN ByteSetBit(last_byte, bit_within_byte)
                    ELSE ByteClearBit(last_byte, bit_within_byte)
    IN  [cnt |-> cnt1, b |-> [b1 EXCEPT ![byte_index + 1] = new_byte]]

\* the byte whose bit j is set iff f[j], j in 0..7
ByteFromBits(f) ==
    LET w(j) == IF f[j] THEN Pow2(j) ELSE 0
    IN  w(0) + w(1) + w(2) + w(3) + w(4) + w(5) + w(6) + w(7)

\* for bit in bits { append(bit) } on a buffer whose backing bytes hold its
\* cnt bits: the bytes grow to hold the new length, every appended position
\* takes its bit and every other bit of the backing bytes stays
DbsAppendBits(bs, bits) ==
    LET cnt1 == bs.cnt + Len(bits)
        need == (cnt1 + (BITS_PER_BYTE - 1)) \div BITS_PER_BYTE
        len1 == IF need > Len(bs.b) THEN need ELSE Len(bs.b)
    IN  [cnt |-> cnt1,
         b |-> [i \in 1..len1 |->
                  LET base == (i - 1) * BITS_PER_BYTE
                      old == IF i <= Len(bs.b) THEN bs.b[i] ELSE 0
                  IN  IF base + BITS_PER_BYTE <= bs.cnt \/ base >= cnt1 THEN old
                      ELSE ByteFromBits([j \in 0..(BITS_PER_BYTE - 1) |->
                              IF base + j >= bs.cnt /\ base + j < cnt1
                              THEN bits[((base + j) - bs.cnt) + 1]
                              ELSE ByteBit(old, j)])]]

\* DynBitString::set, defined when DbsIndexOk(bs, ndx)
DbsSet(bs, ndx, bit) ==
    LET byte_index == ndx \div BITS_PER_BYTE
        bit_index_within_byte == ndx % BITS_PER_BYTE
        old == bs.b[byte_index + 1]
    IN  [bs EXCEPT !.b[byte_index + 1] =
            IF bit THEN ByteSetBit(old, bit_index_within_byte)
            ELSE ByteClearBit(old, bit_index_within_byte)]

\* DynBitString::flip, defined when DbsIndexOk(bs, ndx)
DbsFlip(bs, ndx) == DbsSet(bs, ndx, ~DbsGet(bs, ndx))

\* a bit position clamped to the byte with first bit index base
InByte(k, base) ==
    IF k <= base THEN 0 ELSE IF k >= base + BITS_PER_BYTE THEN BITS_PER_BYTE ELSE k - base

\* for k in from..to { set(k, false) } (to <= cnt): what the sets leave in
\* each byte, the bits below from and the bits from to on kept
DbsClearRange(bs, from, to) ==
    [bs EXCEPT !.b =
        [i \in 1..Len(bs.b) |->
            LET lo == InByte(from, (i - 1) * BITS_PER_BYTE)
                hi == InByte(to, (i - 1) * BITS_PER_BYTE)
            IN  IF lo < hi
                THEN (bs.b[i] % Pow2(lo)) + ((bs.b[i] \div Pow2(hi)) * Pow2(hi))
                ELSE bs.b[i]]]

\* the loop of the growing clip appending 1 bits
RECURSIVE DbsAppendOnes(_, _)
DbsAppendOnes(bs, n) ==
    IF n = 0 THEN [ok |-> TRUE, bs |-> bs]
    ELSE DbsAppendOnes(DbsAppend(bs, TRUE), n - 1)

\* for _k in 0..n { append(false) }: [ok, bs], ok = FALSE once the capacity
\* assertion of an append failed
RECURSIVE DbsAppendZeros(_, _)
DbsAppendZeros(bs, n) ==
    IF n = 0 THEN [ok |-> TRUE, bs |-> bs]
    ELSE IF ~DbsAppendAssertOk(bs) THEN [ok |-> FALSE, bs |-> bs]
    ELSE DbsAppendZeros(DbsAppend(bs, FALSE), n - 1)

\* a clip that gives the bytes past the new length back
DbsClip_Truncating(bs, newsz) ==
    IF newsz < bs.cnt
    THEN [ok |-> TRUE,
          bs |-> [cnt |-> newsz,
                  b |-> SubSeq(DbsClearRange(bs, newsz, bs.cnt).b, 1,
                               (newsz + (BITS_PER_BYTE - 1)) \div BITS_PER_BYTE)]]
    ELSE IF newsz > bs.cnt THEN DbsAppendZeros(bs, newsz - bs.cnt)
    ELSE [ok |-> TRUE, bs |-> bs]

\* DynBitString::clip: [ok, bs]
DbsClip(bs, newsz) ==
    IF newsz < bs.cnt
    THEN [ok |-> TRUE, bs |-> [DbsClearRange(bs, newsz, bs.cnt) EXCEPT !.cnt = newsz]]
    ELSE IF newsz > bs.cnt THEN DbsAppendZeros(bs, newsz - bs.cnt)
    ELSE [ok |-> TRUE, bs |-> bs]

\* the loop of from_str over the characters after the prefix: [ok, bs],
\* ok = FALSE at a character that is neither '0' nor '1' or at a failed
\* capacity assertion (cause tells which)
RECURSIVE FromStrLoop(_, _)
FromStrLoop(chars, bs) ==
    IF chars = <<>> THEN [ok |-> TRUE, bs |-> bs, cause |-> ""]
    ELSE IF Head(chars) \notin {"0", "1"} THEN [ok |-> FALSE, bs |-> bs, cause |-> "Err"]
    ELSE IF ~DbsAppendAssertOk(bs) THEN [ok |-> FALSE, bs |-> bs, cause |-> "capacity"]
    ELSE FromStrLoop(Tail(chars), DbsAppend(bs, Head(chars) = "1"))

\* a from_str that does not look at the first character
DbsFromStr_AnyPrefix(str) ==
    IF str = <<>> THEN [ok |-> FALSE, bs |-> DbsNull, cause |-> "Err"]
    ELSE FromStrLoop(Tail(str), DbsNull)

\* DynBitString::from_str, the string as the sequence of its characters
DbsFromStr(str) ==
    IF str = <<>> \/ Head(str) # "b" THEN [ok |-> FALSE, bs |-> DbsNull, cause |-> "Err"]
    ELSE FromStrLoop(Tail(str), DbsNull)

\* PartialEq for DynBitString: equal length and equal bits below the length
DbsEq(x, y) ==
    /\ x.cnt = y.cnt
    /\ \A k \in 0..(x.cnt - 1) : DbsGet(x, k) = DbsGet(y, k)

\* the bits of a buffer in index order, as the Display impl walks them
DbsBits(bs) == [k \in 1..bs.cnt |-> DbsGet(bs, k - 1)]

\* fmt::Display for DynBitString: 'b' and one character per bit in index order
DbsToString(bs) == <<"b">> \o [k \in 1..bs.cnt |-> IF DbsGet(bs, k - 1) THEN "1" ELSE "0"]

(***************************************************************************)
(* u32 values wider than TLC's integers: two 16-bit halves                 *)
(***************************************************************************)
\* 2^16, the weight of the high half
HALF == Pow2(16)

U32Of(n) == [hi |-> n \div HALF, lo |-> n % HALF]
U32Zero == [hi |-> 0, lo |-> 0]
U32One == [hi |-> 0, lo |-> 1]
U32IsZero(x) == x.hi = 0 /\ x.lo = 0

\* bitwise or of two 16-bit halves
RECURSIVE Or16(_, _)
Or16(a, b) ==
    IF a = 0 THEN b
    ELSE IF b = 0 THEN a
    ELSE (IF a % 2 = 1 \/ b % 2 = 1 THEN 1 ELSE 0) + 2 * Or16(a \div 2, b \div 2)

\* the number of significant bits of a 16-bit half, 0 for 0
BitLen16(h) == Cardinality({k \in 0..15 : h >= Pow2(k)})

\* 32 - leading_zeros(x): the number of significant bits, 0 for 0
U32BitLen(x) == IF x.hi # 0 THEN 16 + BitLen16(x.hi) ELSE BitLen16(x.lo)

(***************************************************************************)
(* Flags of both codecs (src/src/encoding_uint.rs lines 6-7)               *)
(***************************************************************************)
\* the continue flag written as a 0 bit
BITSTRING_CONTINUE_Low == FALSE

\* the end flag written as a 1 bit
BITSTRING_END_High == TRUE

BITSTRING_CONTINUE == TRUE
BITSTRING_END == FALSE

(***************************************************************************)
(* SmallIntEncoding (src/src/encoding_small_int.rs)                        *)
(* An encoder returns [ok, bs]: ok = FALSE is a failed assert (a panic),   *)
(* and bs is then the buffer as it was when the assert failed.             *)
(***************************************************************************)
\* the two bits of a chunk written most significant first
SmallTwoBits_MsbFirst(bs, v) ==
    DbsAppend(DbsAppend(bs, (v \div 2) % 2 # 0), v % 2 # 0)

\* for _k in 0..2 { append(v & 1); v >>= 1 }
SmallTwoBits(bs, v) ==
    DbsAppend(DbsAppend(bs, v % 2 # 0), (v \div 2) % 2 # 0)

\* SmallIntEncoding::append_uint32 with a domain of 4 bits: 16 and more refused
SmallAppend_FourBits(bs, v_in) ==
    IF ~(v_in < 16) THEN [ok |-> FALSE, bs |-> bs]
    ELSE
    LET bs1 == DbsAppend(bs, v_in % 2 # 0)
        v1 == v_in \div 2
    IN  IF v1 = 0 THEN [ok |-> TRUE, bs |-> DbsAppend(bs1, BITSTRING_END)]
        ELSE
        LET bs2 == SmallTwoBits(DbsAppend(bs1, BITSTRING_CONTINUE), v1)
            v2 == v1 \div 4
        IN  IF v2 = 0 THEN [ok |-> TRUE, bs |-> DbsAppend(bs2, BITSTRING_END)]
            ELSE
            LET bs3 == SmallTwoBits(DbsAppend(bs2, BITSTRING_CONTINUE), v2)
                v3 == v2 \div 4
            IN  [ok |-> v3 = 0, bs |-> bs3]

\* SmallIntEncoding::append_uint32
SmallAppend(bs, v_in) ==
    IF ~(v_in < 32) THEN [ok |-> FALSE, bs |-> bs]
    ELSE
    LET bs1 == DbsAppend(bs, v_in % 2 # 0)
        v1 == v_in \div 2
    IN  IF v1 = 0 THEN [ok |-> TRUE, bs |-> DbsAppend(bs1, BITSTRING_END)]
        ELSE
        LET bs2 == SmallTwoBits(DbsAppend(bs1, BITSTRING_CONTINUE), v1)
            v2 == v1 \div 4
        IN  IF v2 = 0 THEN [ok |-> TRUE, bs |-> DbsAppend(bs2, BITSTRING_END)]
            ELSE
            LET bs3 == SmallTwoBits(DbsAppend(bs2, BITSTRING_CONTINUE), v2)
                v3 == v2 \div 4
            IN  [ok |-> v3 = 0, bs |-> bs3]

(***************************************************************************)
(* A reader is [ok, cur, v, mask]: ok = FALSE once a get hit its assert    *)
(* (index >= len), cur the cursor, v the value so far, mask the next bit.  *)
(***************************************************************************)
\* if bs.get(cursor) { v |= mask }; cursor += 1; mask <<= 1   (small values)
SmallReadBit(bs, r) ==
    IF ~r.ok THEN r
    ELSE IF ~DbsIndexOk(bs, r.cur) THEN [r EXCEPT !.ok = FALSE]
    ELSE [ok |-> TRUE, cur |-> r.cur + 1,
          v |-> IF DbsGet(bs, r.cur) THEN Or16(r.v, r.mask) ELSE r.v,
          mask |-> r.mask * 2]

\* let flag = bs.get(cursor); cursor += 1: [ok, cur, flag]
ReadFlag(bs, ok, cur) ==
    IF ~ok THEN [ok |-> FALSE, cur |-> cur, flag |-> FALSE]
    ELSE IF ~DbsIndexOk(bs, cur) THEN [ok |-> FALSE, cur |-> cur, flag |-> FALSE]
    ELSE [ok |-> TRUE, cur |-> cur + 1, flag |-> DbsGet(bs, cur)]

\* SmallIntEncoding::read_uint32: [ok, cur, v]
SmallRead(bs, bitstring_cursor) ==
    LET r1 == SmallReadBit(bs, [ok |-> TRUE, cur |-> bitstring_cursor, v |-> 0, mask |-> 1])
        f1 == ReadFlag(bs, r1.ok, r1.cur)
    IN  IF ~f1.ok THEN [ok |-> FALSE, cur |-> f1.cur, v |-> r1.v]
        ELSE IF f1.flag # BITSTRING_CONTINUE THEN [ok |-> TRUE, cur |-> f1.cur, v |-> r1.v]
        ELSE
        LET r2 == SmallReadBit(bs, SmallReadBit(bs, [r1 EXCEPT !.cur = f1.cur]))
            f2 == ReadFlag(bs, r2.ok, r2.cur)
        IN  IF ~f2.ok THEN [ok |-> FALSE, cur |-> f2.cur, v |-> r2.v]
            ELSE IF f2.flag # BITSTRING_CONTINUE THEN [ok |-> TRUE, cur |-> f2.cur, v |-> r2.v]
            ELSE
            LET r3 == SmallReadBit(bs, SmallReadBit(bs, [r2 EXCEPT !.cur = f2.cur]))
            IN  [ok |-> r3.ok, cur |-> r3.cur, v |-> r3.v]

(***************************************************************************)
(* U32Encoding (src/src/encoding_u32.rs)                                   *)
(***************************************************************************)
\* CONTINUE_OFFSETS, indexed from 1 here
CONTINUE_OFFSETS == <<1, 5>>

\* the `for k in 0..5` loop of append_uint32 that writes the length field;
\* returns the buffer and what is left of len_bitct
RECURSIVE U32AppendLen(_, _, _, _)
U32AppendLen(bs, len_bitct, continue_offsets_index, k) ==
    IF k >= 5 THEN [bs |-> bs, len_bitct |-> len_bitct]
    ELSE
    LET bs1 == DbsAppend(bs, len_bitct % 2 # 0)
        l1 == len_bitct \div 2
    IN  IF CONTINUE_OFFSETS[continue_offsets_index + 1] = k
        THEN IF l1 = 0
             THEN [bs |-> DbsAppend(bs1, BITSTRING_END), len_bitct |-> l1]
             ELSE U32AppendLen(DbsAppend(bs1, BITSTRING_CONTINUE), l1,
                               continue_offsets_index + 1, k + 1)
        ELSE U32AppendLen(bs1, l1, continue_offsets_index, k + 1)

\* (v >> k) & 1 != 0
U32Bit(v, k) ==
    IF k < 16 THEN (v.lo \div Pow2(k)) % 2 = 1 ELSE (v.hi \div Pow2(k - 16)) % 2 = 1

\* the value bits appended most significant first
U32AppendValueBits_MsbFirst(bs, v) ==
    DbsAppendBits(bs, [k \in 1..U32BitLen(v) |-> U32Bit(v, U32BitLen(v) - k)])

\* while v > 0 { append(v & 1); v >>= 1 }: one pass for each significant
\* bit of v, pass k appending (v >> k) & 1
U32AppendValueBits(bs, v) ==
    DbsAppendBits(bs, [k \in 1..U32BitLen(v) |-> U32Bit(v, k - 1)])

\* append_uint32 without its `if v_in == 0` branch: no value bit for 0
U32Append_NoZeroCase(bs, v_in) ==
    LET bits == U32BitLen(v_in)
        len_bitct == IF bits # 0 THEN bits - 1 ELSE bits
        lenf == U32AppendLen(bs, len_bitct, 0, 0)
    IN  IF lenf.len_bitct # 0 THEN [ok |-> FALSE, bs |-> lenf.bs]
        ELSE [ok |-> TRUE, bs |-> U32AppendValueBits(lenf.bs, v_in)]

\* U32Encoding::append_uint32, v_in as halves
U32Append(bs, v_in) ==
    LET bits == U32BitLen(v_in)
        len_bitct == IF bits # 0 THEN bits - 1 ELSE bits
        lenf == U32AppendLen(bs, len_bitct, 0, 0)
    IN  IF lenf.len_bitct # 0 THEN [ok |-> FALSE, bs |-> lenf.bs]
        ELSE IF U32IsZero(v_in) THEN [ok |-> TRUE, bs |-> DbsAppend(lenf.bs, FALSE)]
        ELSE [ok |-> TRUE, bs |-> U32AppendValueBits(lenf.bs, v_in)]

\* the `for k in 0..5` loop of read_uint32 that reads the length field:
\* [ok, cur, vlen]
RECURSIVE U32ReadLen(_, _, _, _)
U32ReadLen(bs, r, continue_offsets_index, k) ==
    IF k >= 5 \/ ~r.ok THEN r
    ELSE
    LET r1 == SmallReadBit(bs, r)
    IN  IF ~r1.ok THEN r1
        ELSE IF CONTINUE_OFFSETS[continue_offsets_index + 1] = k
        THEN LET f == ReadFlag(bs, TRUE, r1.cur)
             IN  IF ~f.ok THEN [r1 EXCEPT !.ok = FALSE]
                 ELSE IF ~f.flag THEN [r1 EXCEPT !.cur = f.cur]
                 ELSE U32ReadLen(bs, [r1 EXCEPT !.cur = f.cur],
                                 continue_offsets_index + 1, k + 1)
        ELSE U32ReadLen(bs, r1, continue_offsets_index, k + 1)

\* a 16-bit half whose bit k is set iff f[k], k in 0..15
HalfFromBits(f) ==
    ByteFromBits([j \in 0..7 |-> f[j]]) + (256 * ByteFromBits([j \in 0..7 |-> f[j + 8]]))

\* for _j in 0..vlen { if get(cursor) { v |= mask }; cursor += 1; mask <<= 1 }
\* from v = 0 and mask = 1: [ok, cur, v]. The passes go on until a get hits
\* its assert (ok = FALSE, cur the index it was given); pass k ors 1 << k
\* into v if the bit at bitstring_cursor + k is set.
U32ReadValueBits(bs, bitstring_cursor, vlen) ==
    LET avail == IF bs.cnt > bitstring_cursor THEN bs.cnt - bitstring_cursor ELSE 0
        n == IF vlen <= avail THEN vlen ELSE avail
        bit(k) == k < n /\ DbsGet(bs, bitstring_cursor + k)
    IN  [ok |-> vlen <= avail, cur |-> bitstring_cursor + n,
         v |-> [hi |-> HalfFromBits([k \in 0..15 |-> bit(k + 16)]),
                lo |-> HalfFromBits([k \in 0..15 |-> bit(k)])]]

\* read_uint32 with `vlen` left at the stored length, one bit short
U32Read_LenOffByOne(bs, bitstring_cursor) ==
    LET lenr == U32ReadLen(bs, [ok |-> TRUE, cur |-> bitstring_cursor, v |-> 0, mask |-> 1], 0, 0)
        vlen == lenr.v
    IN  IF ~lenr.ok \/ ~(vlen < 33) THEN [ok |-> FALSE, cur |-> lenr.cur, v |-> U32Zero]
        ELSE U32ReadValueBits(bs, lenr.cur, vlen)

\* U32Encoding::read_uint32: [ok, cur, v], v as halves
U32Read(bs, bitstring_cursor) ==
    LET lenr == U32ReadLen(bs, [ok |-> TRUE, cur |-> bitstring_cursor, v |-> 0, mask |-> 1], 0, 0)
        vlen == lenr.v + 1
    IN  IF ~lenr.ok \/ ~(vlen < 33) THEN [ok |-> FALSE, cur |-> lenr.cur, v |-> U32Zero]
        ELSE U32ReadValueBits(bs, lenr.cur, vlen)

(***************************************************************************)
(* The earlier revision of the general codec (src/src/encoding_uint.rs)    *)
(***************************************************************************)
\* CONTINUE_OFFSETS as its comment says it used to be
encoding_uint_CONTINUE_OFFSETS_Former == <<0, 2, 5>>

\* CONTINUE_OFFSETS of encoding_uint.rs, indexed from 1 here
encoding_uint_CONTINUE_OFFSETS == <<1, 3, 5>>

\* the `for k in 0..5` loop of its append_uint32 that writes the length
\* field; returns the buffer
RECURSIVE encoding_uint_AppendLen(_, _, _, _)
encoding_uint_AppendLen(bs, len_bitct, continue_offsets_index, k) ==
    IF k >= 5 THEN bs
    ELSE
    LET bs1 == DbsAppend(bs, len_bitct % 2 # 0)
        l1 == len_bitct \div 2
    IN  IF encoding_uint_CONTINUE_OFFSETS[continue_offsets_index + 1] = k
        THEN IF l1 = 0
             THEN DbsAppend(bs1, BITSTRING_END)
             ELSE encoding_uint_AppendLen(DbsAppend(bs1, BITSTRING_CONTINUE), l1,
                                          continue_offsets_index + 1, k + 1)
        ELSE encoding_uint_AppendLen(bs1, l1, continue_offsets_index, k + 1)

\* encoding_uint::append_uint32(v_in, length_and_val), v_in as halves; the
\* value loop of lines 93-97 is the one of U32Encoding
encoding_uint_append_uint32(v_in, length_and_val) ==
    LET bits == U32BitLen(v_in)
        len_bitct == IF bits # 0 THEN bits - 1 ELSE bits
        lenf == encoding_uint_AppendLen(length_and_val, len_bitct, 0, 0)
    IN  IF U32IsZero(v_in) THEN DbsAppend(lenf, FALSE)
        ELSE U32AppendValueBits(lenf, v_in)

\* the `for k in 0..5` loop of its read_uint32 that reads the length field:
\* [ok, cur, v, mask]
RECURSIVE encoding_uint_ReadLen(_, _, _, _)
encoding_uint_ReadLen(bs, r, continue_offsets_index, k) ==
    IF k >= 5 \/ ~r.ok THEN r
    ELSE
    LET r1 == SmallReadBit(bs, r)
    IN  IF ~r1.ok THEN r1
        ELSE IF encoding_uint_CONTINUE_OFFSETS[continue_offsets_index + 1] = k
        THEN LET f == ReadFlag(bs, TRUE, r1.cur)
             IN  IF ~f.ok THEN [r1 EXCEPT !.ok = FALSE]
                 ELSE IF ~f.flag THEN [r1 EXCEPT !.cur = f.cur]
                 ELSE encoding_uint_ReadLen(bs, [r1 EXCEPT !.cur = f.cur],
                                            continue_offsets_index + 1, k + 1)
        ELSE encoding_uint_ReadLen(bs, r1, continue_offsets_index, k + 1)

\* encoding_uint::read_uint32(enc_len_val, bitstring_cursor): [ok, cur, v]
encoding_uint_read_uint32(enc_len_val, bitstring_cursor) ==
    LET lenr == encoding_uint_ReadLen(enc_len_val,
                    [ok |-> TRUE, cur |-> bitstring_cursor, v |-> 0, mask |-> 1], 0, 0)
        vlen == lenr.v + 1
    IN  IF ~lenr.ok \/ ~(vlen < 33) THEN [ok |-> FALSE, cur |-> lenr.cur, v |-> U32Zero]
        ELSE U32ReadValueBits(enc_len_val, lenr.cur, vlen)

\* x + y on u32: [v, ovf]
U32Add(x, y) ==
    LET lo == x.lo + y.lo
        hi == x.hi + y.hi + (lo \div HALF)
    IN  [v |-> [hi |-> hi % HALF, lo |-> lo % HALF], ovf |-> hi >= HALF]

\* the minuend passed on as it is: an index written whole, not as a delta
U32SubSmall_NoDelta(x, y) == [v |-> U32Of(x), ovf |-> FALSE]

\* x - y on u32 operands below 2^31: [v, ovf]; a wrapped difference is
\* 2^32 - (y - x)
U32SubSmall(x, y) ==
    IF x >= y THEN [v |-> U32Of(x - y), ovf |-> FALSE]
    ELSE LET d == y - x
             borrow == IF d % HALF = 0 THEN 0 ELSE 1
         IN  [v |-> [hi |-> (HALF - (d \div HALF) - borrow) % HALF,
                     lo |-> (HALF - (d % HALF)) % HALF],
              ovf |-> TRUE]

\* x - y on u32 halves: [v, ovf]
U32Sub(x, y) ==
    LET lo == (x.lo + HALF) - y.lo
        hi == ((x.hi + HALF) - y.hi) - (IF lo < HALF THEN 1 ELSE 0)
    IN  [v |-> [hi |-> hi % HALF, lo |-> lo % HALF], ovf |-> hi < HALF]

(***************************************************************************)
(* Prime-power transform and factor encoder (src/src/encode_prime.rs)      *)
(***************************************************************************)
\* F applied to the value of e: e is computed once, before F is applied
ValueIn(e, F(_)) == CHOOSE r \in {F(x) : x \in {e}} : TRUE

\* one pass of the `for p in prm_factors` loop of factors_to_int_as_prms, for
\* p = prm_factors[i]; exp is a u8
IapPass(prm_factors, i, acc) ==
    LET p == prm_factors[i]
        n == Len(acc.prm_powers)
        last_prmpwr == acc.prm_powers[n]
    IN  IF last_prmpwr.prm_idx = p
        THEN IF last_prmpwr.exp + 1 > 255
             THEN IF overflow_checks
                  THEN [acc EXCEPT !.ok = FALSE]
                  ELSE [acc EXCEPT !.prm_powers[n].exp = 0]
             ELSE [acc EXCEPT !.prm_powers[n].exp = last_prmpwr.exp + 1]
        ELSE [acc EXCEPT !.prm_powers = Append(acc.prm_powers, [exp |-> 1, prm_idx |-> p])]

\* the passes lo..hi of that loop, in order, stopping at the first that
\* panics; the range is walked as two halves, the first before the second
RECURSIVE IapLoop(_, _, _, _)
IapLoop(prm_factors, lo, hi, acc) ==
    IF lo > hi \/ ~acc.ok THEN acc
    ELSE IF lo = hi THEN IapPass(prm_factors, lo, acc)
    ELSE ValueIn(IapLoop(prm_factors, lo, (lo + hi) \div 2, acc),
                 LAMBDA first : IF first.ok
                                THEN IapLoop(prm_factors, ((lo + hi) \div 2) + 1, hi, first)
                                ELSE first)

\* factors_to_int_as_prms: [ok, prm_powers]; the caller has checked the
\* input is not empty
factors_to_int_as_prms(prm_factors) ==
    IapLoop(prm_factors, 1, Len(prm_factors),
            [ok |-> TRUE, prm_powers |-> <<[exp |-> 0, prm_idx |-> prm_factors[1]]>>])

\* one pass of the loop of encode_factors that appends (exp - 1) of a run
EncodeExponent(prm_powers, i, acc) ==
    IF ~(prm_powers[i].exp > 0) THEN [acc EXCEPT !.ok = FALSE]
    ELSE SmallAppend(acc.bs, prm_powers[i].exp - 1)

\* the passes lo..hi of that loop, in order: [ok, bs]
RECURSIVE EncodeExponents(_, _, _, _)
EncodeExponents(prm_powers, lo, hi, acc) ==
    IF lo > hi \/ ~acc.ok THEN acc
    ELSE IF lo = hi THEN EncodeExponent(prm_powers, lo, acc)
    ELSE ValueIn(EncodeExponents(prm_powers, lo, (lo + hi) \div 2, acc),
                 LAMBDA first : IF first.ok
                                THEN EncodeExponents(prm_powers, ((lo + hi) \div 2) + 1, hi, first)
                                ELSE first)

\* the pass with prev_index left as it was
EncodeIndex_StalePrev(prm_powers, i, acc) ==
    LET d == U32SubSmall(prm_powers[i].prm_idx, acc.prev_index)
    IN  IF d.ovf /\ overflow_checks THEN [acc EXCEPT !.ok = FALSE]
        ELSE LET w == U32Append(acc.bs, d.v)
             IN  [ok |-> w.ok, bs |-> w.bs, prev_index |-> acc.prev_index]

\* one pass of the loop of encode_factors that appends prm_idx - prev_index
\* of a run and makes prm_idx the next prev_index
EncodeIndex(prm_powers, i, acc) ==
    LET d == U32SubSmall(prm_powers[i].prm_idx, acc.prev_index)
    IN  IF d.ovf /\ overflow_checks THEN [acc EXCEPT !.ok = FALSE]
        ELSE LET w == U32Append(acc.bs, d.v)
             IN  [ok |-> w.ok, bs |-> w.bs, prev_index |-> prm_powers[i].prm_idx]

\* the passes lo..hi of that loop, in order: [ok, bs, prev_index]
RECURSIVE EncodeIndices(_, _, _, _)
EncodeIndices(prm_powers, lo, hi, acc) ==
    IF lo > hi \/ ~acc.ok THEN acc
    ELSE IF lo = hi THEN EncodeIndex(prm_powers, lo, acc)
    ELSE ValueIn(EncodeIndices(prm_powers, lo, (lo + hi) \div 2, acc),
                 LAMBDA first : IF first.ok
                                THEN EncodeIndices(prm_powers, ((lo + hi) \div 2) + 1, hi, first)
                                ELSE first)

\* the body of encode_factors after factors_to_int_as_prms: [ok, bs]
EncodePrmPowers(prm_powers) ==
    LET l == Len(prm_powers)
        e0 == IF l > 0 THEN SmallAppend(DbsNull, l - 1) ELSE [ok |-> FALSE, bs |-> DbsNull]
    IN  ValueIn(EncodeExponents(prm_powers, 1, l, e0),
                LAMBDA e1 :
                    ValueIn(EncodeIndices(prm_powers, 1, l,
                                          [ok |-> e1.ok, bs |-> e1.bs, prev_index |-> 0]),
                            LAMBDA e2 : [ok |-> e2.ok, bs |-> e2.bs]))

\* encode_factors: [ok, bs]
encode_factors(v) ==
    IF Len(v) = 0 THEN [ok |-> FALSE, bs |-> DbsNull]
    ELSE ValueIn(factors_to_int_as_prms(v),
                 LAMBDA iap : IF ~iap.ok THEN [ok |-> FALSE, bs |-> DbsNull]
                              ELSE EncodePrmPowers(iap.prm_powers))

\* one pass of the first loop of decode_factors
DecodeExponent(bs, acc) ==
    LET r == SmallRead(bs, acc.cur)
    IN  [ok |-> r.ok, cur |-> r.cur,
         exponents |-> IF r.ok THEN Append(acc.exponents, r.v + 1) ELSE acc.exponents]

\* k passes of that loop, in order: [ok, cur, exponents]
RECURSIVE DecodeExponents(_, _, _)
DecodeExponents(bs, k, acc) ==
    IF k = 0 \/ ~acc.ok THEN acc
    ELSE IF k = 1 THEN DecodeExponent(bs, acc)
    ELSE ValueIn(DecodeExponents(bs, k \div 2, acc),
                 LAMBDA first : IF first.ok
                                THEN DecodeExponents(bs, k - (k \div 2), first)
                                ELSE first)

\* one pass of the second loop of decode_factors, for exponents[k]
DecodeIndex(bs, exponents, k, acc) ==
    LET r == U32Read(bs, acc.cur)
        next_prm_index == U32Add(r.v, acc.prev_index)
    IN  IF ~r.ok \/ (next_prm_index.ovf /\ overflow_checks)
        THEN [acc EXCEPT !.ok = FALSE, !.cur = r.cur]
        ELSE [ok |-> TRUE, cur |-> r.cur, prev_index |-> next_prm_index.v,
              ppwrs |-> Append(acc.ppwrs, [exp |-> exponents[k] % 256,
                                           prm_idx |-> next_prm_index.v])]

\* the passes lo..hi of that loop, in order: [ok, cur, prev_index, ppwrs]
RECURSIVE DecodeIndices(_, _, _, _, _)
DecodeIndices(bs, exponents, lo, hi, acc) ==
    IF lo > hi \/ ~acc.ok THEN acc
    ELSE IF lo = hi THEN DecodeIndex(bs, exponents, lo, acc)
    ELSE ValueIn(DecodeIndices(bs, exponents, lo, (lo + hi) \div 2, acc),
                 LAMBDA first : IF first.ok
                                THEN DecodeIndices(bs, exponents, ((lo + hi) \div 2) + 1, hi, first)
                                ELSE first)

\* the expansion loop of decode_factors over ppwrs[lo..hi]: every prm_idx
\* repeated exp times
RECURSIVE ExpandPpwrs(_, _, _)
ExpandPpwrs(ppwrs, lo, hi) ==
    IF lo > hi THEN <<>>
    ELSE IF lo = hi THEN [j \in 1..ppwrs[lo].exp |-> ppwrs[lo].prm_idx]
    ELSE ExpandPpwrs(ppwrs, lo, (lo + hi) \div 2)
             \o ExpandPpwrs(ppwrs, ((lo + hi) \div 2) + 1, hi)

\* the two later loops of decode_factors, from the exponents read: [ok, factors]
DecodePrmPowers(bs, ex) ==
    ValueIn(DecodeIndices(bs, ex.exponents, 1, Len(ex.exponents),
                [ok |-> TRUE, cur |-> ex.cur, prev_index |-> U32Zero, ppwrs |-> <<>>]),
            LAMBDA ix : IF ~ix.ok THEN [ok |-> FALSE, factors |-> <<>>]
                        ELSE [ok |-> TRUE,
                              factors |-> ExpandPpwrs(ix.ppwrs, 1, Len(ix.ppwrs))])

\* decode_factors: [ok, factors]
decode_factors(bs) ==
    LET r0 == SmallRead(bs, 0)
    IN  IF ~r0.ok THEN [ok |-> FALSE, factors |-> <<>>]
        ELSE ValueIn(DecodeExponents(bs, r0.v + 1,
                                     [ok |-> TRUE, cur |-> r0.cur, exponents |-> <<>>]),
                     LAMBDA ex : IF ~ex.ok THEN [ok |-> FALSE, factors |-> <<>>]
                                 ELSE DecodePrmPowers(bs, ex))

(***************************************************************************)
(* Variable groups and their idle values                                   *)
(***************************************************************************)
codec_vars == <<bstr, cursor, written, readvals, last_in, cstatus>>
enc_vars == <<enc_in, enc_bs, enc_status, dec_out>>
factor_vars == <<f_n, f_prms, f_pc, f_idx, f_num, f_factors, f_divs, f_result>>
gen_vars == <<g_n, g_prms, g_pc>>
par_vars == <<p_n, p_nthreads, p_pc, p_cause, p_pbr, p_base, p_count, p_ranges, p_prms,
              p_k, p_t, p_log, p_wstate, p_wpos, p_chan>>
shard_vars == <<s_chunks, s_upper, s_lower, s_pc, s_cause, s_ranges>>
early_vars == <<codec_vars, enc_vars, factor_vars, gen_vars, par_vars>>
file_vars == <<fs_file, io_prms, io_pc, io_wres, io_read>>
drv_vars == <<d_n, d_nthreads, d_pc, d_read, d_wres, d_prms, d_trace>>
fa_vars == <<fa_n, fa_nthreads, fa_prms, fa_pc, fa_ranges, fa_k, fa_w, fa_res, fa_active,
             fa_checked, fa_join>>
bb_vars == <<bb_bs, bb_prev, bb_op, bb_max, bb_ones, bb_pc, bb_ops>>
rng_vars == <<gr_args, gr_pc, gr_res>>
rev_vars == <<rv_v, rv_cur, rv_uint, rv_u32, rv_reads>>
fn_vars == <<pp_in, pp_iap, pp_exp, pp_bs, pp_fmt, rng_vars, rev_vars>>
last_vars == <<fa_vars, bb_vars, fn_vars>>
later_vars == <<shard_vars, file_vars, drv_vars, last_vars>>
vars == <<overflow_checks, later_vars, codec_vars, enc_vars, factor_vars, gen_vars, par_vars>>

CodecIdle ==
    /\ bstr = DbsNull /\ cursor = 0 /\ written = <<>> /\ readvals = <<>>
    /\ last_in = <<>> /\ cstatus = "idle"

EncIdle ==
    /\ enc_in = <<>> /\ enc_bs = DbsNull /\ enc_status = "unused" /\ dec_out = <<>>

FactorIdle ==
    /\ f_n = U32Zero /\ f_prms = <<>> /\ f_pc = "unused" /\ f_idx = 0 /\ f_num = U32Zero
    /\ f_factors = <<>> /\ f_divs = 0 /\ f_result = "none"

GenIdle == g_n = 0 /\ g_prms = <<>> /\ g_pc = "unused"

ParIdle ==
    /\ p_n = 0 /\ p_nthreads = 0 /\ p_pc = "unused" /\ p_cause = "" /\ p_pbr = 0
    /\ p_base = <<>> /\ p_count = 0 /\ p_ranges = <<>> /\ p_prms = <<>>
    /\ p_k = 0 /\ p_t = 0 /\ p_log = <<>>
    /\ p_wstate = <<>> /\ p_wpos = <<>> /\ p_chan = <<>>

ShardIdle ==
    /\ s_chunks = 0 /\ s_upper = 0 /\ s_lower = 0 /\ s_pc = "unused" /\ s_cause = ""
    /\ s_ranges = <<>>

EarlyIdle == CodecIdle /\ EncIdle /\ FactorIdle /\ GenIdle /\ ParIdle
\* no file at the pathname
NoFile == [exists |-> FALSE, recs |-> <<>>, tail |-> 0]
NoRead == [ok |-> FALSE, prms |-> <<>>]

FileIdle ==
    /\ fs_file = NoFile /\ io_prms = <<>> /\ io_pc = "unused" /\ io_wres = "none"
    /\ io_read = NoRead

DrvIdle ==
    /\ d_n = 0 /\ d_nthreads = 0 /\ d_pc = "unused" /\ d_read = "none" /\ d_wres = "none"
    /\ d_prms = <<>> /\ d_trace = <<>>

\* no operation applied yet
NoOp == [name |-> "none", arg |-> 0]

FaIdle ==
    /\ fa_n = 0 /\ fa_nthreads = 0 /\ fa_prms = <<>> /\ fa_pc = "unused" /\ fa_ranges = <<>>
    /\ fa_k = <<>> /\ fa_w = <<>> /\ fa_res = <<>> /\ fa_active = 0 /\ fa_checked = {}
    /\ fa_join = 0

BbIdle ==
    /\ bb_bs = DbsNull /\ bb_prev = DbsNull /\ bb_op = NoOp /\ bb_max = 0 /\ bb_ones = {}
    /\ bb_pc = "unused" /\ bb_ops = 0

\* the result of a call that was not made
NotCalled == [st |-> "none"]

RngIdle == gr_args = NotCalled /\ gr_pc = "unused" /\ gr_res = NotCalled

RevIdle ==
    /\ rv_v = [hi |-> 0, lo |-> 0] /\ rv_cur = 0 /\ rv_uint = NotCalled /\ rv_u32 = NotCalled
    /\ rv_reads = <<>>

FnIdle ==
    /\ pp_in = <<>> /\ pp_iap = NotCalled /\ pp_exp = NotCalled /\ pp_bs = NotCalled
    /\ pp_fmt = NotCalled /\ RngIdle /\ RevIdle

LastIdle == FaIdle /\ BbIdle /\ FnIdle

LaterIdle == ShardIdle /\ FileIdle /\ DrvIdle /\ LastIdle

(***************************************************************************)
(* A codec session: the callers of append_uint32 / read_uint32, as in      *)
(* test_read_uint32 (encoding_small_int.rs) and encode/decode_uint32       *)
(* (encoding_u32.rs): some appends to one buffer, then reads from cursor 0 *)
(***************************************************************************)
\* 2^k as a u32, 0 <= k <= 31
U32Pow(k) == IF k < 16 THEN [hi |-> 0, lo |-> Pow2(k)] ELSE [hi |-> Pow2(k - 16), lo |-> 0]
\* 2^k - 1 as a u32, 1 <= k <= 32
U32PowMinus1(k) ==
    IF k <= 16 THEN [hi |-> 0, lo |-> Pow2(k) - 1]
    ELSE [hi |-> Pow2(k - 16) - 1, lo |-> HALF - 1]
U32Max == U32PowMinus1(32)

\* operands of the first append
U32Samples ==
    {U32Of(n) : n \in 0..MaxSmallV} \cup {U32Pow(k) : k \in 0..31}
        \cup {U32PowMinus1(k) : k \in 1..32} \cup {[hi |-> 4660, lo |-> 22136]}
SmallSamples == 0..Pow2(5)
\* operands of the later appends
U32Later == {U32Zero, U32One, U32Of(8), U32Max}
SmallLater == {0, 1, 7, 31}

CodecInit ==
    /\ bstr = DbsNull /\ cursor = 0 /\ written = <<>> /\ readvals = <<>>
    /\ last_in = <<>> /\ cstatus = "ok"

\* t.append_uint32(v) on the session's SmallIntEncoding
AppendSmallInt ==
    /\ cstatus = "ok" /\ readvals = <<>> /\ Len(written) < MaxAppends
    /\ \E v \in (IF written = <<>> THEN SmallSamples ELSE SmallLater) :
         LET r == SmallAppend(bstr, v)
         IN  /\ bstr' = r.bs
             /\ last_in' = [kind |-> "small", v |-> U32Of(v)]
             /\ IF r.ok
                THEN /\ written' = Append(written, [kind |-> "small", v |-> U32Of(v), end |-> r.bs.cnt])
                     /\ cstatus' = "ok"
                ELSE /\ written' = written
                     /\ cstatus' = "panic"
    /\ UNCHANGED <<cursor, readvals, overflow_checks, later_vars, enc_vars, factor_vars, gen_vars, par_vars>>

\* int_encoding.append_uint32(v) on the session's U32Encoding
AppendU32 ==
    /\ cstatus = "ok" /\ readvals = <<>> /\ Len(written) < MaxAppends
    /\ \E v \in (IF written = <<>> THEN U32Samples ELSE U32Later) :
         LET r == U32Append(bstr, v)
         IN  /\ bstr' = r.bs
             /\ last_in' = [kind |-> "u32", v |-> v]
             /\ IF r.ok
                THEN /\ written' = Append(written, [kind |-> "u32", v |-> v, end |-> r.bs.cnt])
                     /\ cstatus' = "ok"
                ELSE /\ written' = written
                     /\ cstatus' = "panic"
    /\ UNCHANGED <<cursor, readvals, overflow_checks, later_vars, enc_vars, factor_vars, gen_vars, par_vars>>

\* the codec of the next value to read: the one that wrote it; past the
\* last value either reader may be called
NextKindIs(kind) ==
    Len(readvals) < Len(written) => written[Len(readvals) + 1].kind = kind

\* t.read_uint32(&mut cursor) on the SmallIntEncoding
ReadSmallInt ==
    /\ cstatus = "ok" /\ written # <<>> /\ NextKindIs("small")
    /\ LET r == SmallRead(bstr, cursor)
       IN  /\ cursor' = r.cur
           /\ IF r.ok
              THEN readvals' = Append(readvals, U32Of(r.v)) /\ cstatus' = "ok"
              ELSE readvals' = readvals /\ cstatus' = "panic"
    /\ UNCHANGED <<bstr, written, last_in, overflow_checks, later_vars, enc_vars, factor_vars, gen_vars, par_vars>>

\* u32_enc.read_uint32(&mut cursor) on the U32Encoding
ReadU32 ==
    /\ cstatus = "ok" /\ written # <<>> /\ NextKindIs("u32")
    /\ LET r == U32Read(bstr, cursor)
       IN  /\ cursor' = r.cur
           /\ IF r.ok
              THEN readvals' = Append(readvals, r.v) /\ cstatus' = "ok"
              ELSE readvals' = readvals /\ cstatus' = "panic"
    /\ UNCHANGED <<bstr, written, last_in, overflow_checks, later_vars, enc_vars, factor_vars, gen_vars, par_vars>>

CodecNext == AppendSmallInt \/ AppendU32 \/ ReadSmallInt \/ ReadU32

InitCodec ==
    CodecInit /\ EncIdle /\ FactorIdle /\ GenIdle /\ ParIdle /\ LaterIdle /\ overflow_checks = FALSE

SpecCodec == InitCodec /\ [][CodecNext]_vars

(***************************************************************************)
(* One encode_factors call followed by decode_factors of its result, as in *)
(* test_decode_factors (encode_prime.rs)                                   *)
(***************************************************************************)
\* the exponents tried for a run: small ones and the edges of the
\* small-value codec's domain
ExpChoices == {1, 2, 3, 32, 33}

\* run lists [d, e]: the first index is d, a later index is the previous + d
RunLists ==
    UNION {[1..n -> [d : 0..MaxDelta, e : ExpChoices]] : n \in 1..MaxRuns}

RECURSIVE ExpandRuns(_, _, _)
ExpandRuns(runs, i, prev) ==
    IF i > Len(runs) THEN <<>>
    ELSE [j \in 1..runs[i].e |-> prev + runs[i].d] \o ExpandRuns(runs, i + 1, prev + runs[i].d)

\* the index sequences handed to encode_factors: non-decreasing ones, the
\* empty one, and the ones with 32 and 33 distinct indices
EncInputs ==
    {ExpandRuns(r, 1, 0) : r \in {q \in RunLists : \A i \in 2..Len(q) : q[i].d >= 1}}
        \cup {<<>>, [i \in 1..32 |-> i - 1], [i \in 1..33 |-> i - 1]}

EncInit ==
    /\ enc_in \in EncInputs /\ enc_bs = DbsNull /\ enc_status = "idle" /\ dec_out = <<>>

\* let bs = encode_factors(&enc_in)
EncodeFactors ==
    /\ enc_status = "idle"
    /\ LET r == encode_factors(enc_in)
       IN  IF r.ok
           THEN enc_bs' = r.bs /\ enc_status' = "encoded"
           ELSE enc_bs' = enc_bs /\ enc_status' = "enc_panic"
    /\ UNCHANGED <<enc_in, dec_out, overflow_checks, later_vars, codec_vars, factor_vars, gen_vars, par_vars>>

\* let idx_out = decode_factors(&bs)
DecodeFactors ==
    /\ enc_status = "encoded"
    /\ LET r == decode_factors(enc_bs)
       IN  IF r.ok
           THEN dec_out' = r.factors /\ enc_status' = "decoded"
           ELSE dec_out' = dec_out /\ enc_status' = "dec_panic"
    /\ UNCHANGED <<enc_in, enc_bs, overflow_checks, later_vars, codec_vars, factor_vars, gen_vars, par_vars>>

\* the caller cuts the encoding short: bs.clip(newsz) for a newsz below len()
TruncateEncoding ==
    /\ enc_status = "encoded"
    /\ \E newsz \in 0..(enc_bs.cnt - 1) :
           /\ enc_bs' = DbsClip(enc_bs, newsz).bs
           /\ enc_status' = "truncated"
    /\ UNCHANGED <<enc_in, dec_out, overflow_checks, later_vars, codec_vars, factor_vars, gen_vars, par_vars>>

\* let idx_out = decode_factors(&bs) on the shortened buffer; a get past the
\* end is the only way decode_factors has of not returning a Vec<u32>
DecodeTruncated ==
    /\ enc_status = "truncated"
    /\ LET r == decode_factors(enc_bs)
       IN  IF r.ok
           THEN dec_out' = r.factors /\ enc_status' = "trunc_decoded"
           ELSE dec_out' = dec_out /\ enc_status' = "trunc_panic"
    /\ UNCHANGED <<enc_in, enc_bs, overflow_checks, later_vars, codec_vars, factor_vars, gen_vars, par_vars>>

EncNext == EncodeFactors \/ DecodeFactors

InitEnc ==
    EncInit /\ CodecIdle /\ FactorIdle /\ GenIdle /\ ParIdle /\ LaterIdle /\ overflow_checks \in BOOLEAN

SpecEnc == InitEnc /\ [][EncNext]_vars

(***************************************************************************)
(* decode_factors on a buffer that ends early: an encoding is cut short    *)
(* with clip and handed to the decoder                                     *)
(***************************************************************************)
\* the index sequences whose encodings are cut: runs of at most 3
TruncInputs ==
    {ExpandRuns(r, 1, 0) :
        r \in {q \in RunLists : /\ \A i \in 2..Len(q) : q[i].d >= 1
                                /\ \A i \in 1..Len(q) : q[i].e <= 3}}

TruncInit ==
    /\ enc_in \in TruncInputs /\ enc_bs = DbsNull /\ enc_status = "idle" /\ dec_out = <<>>

TruncNext == EncodeFactors \/ TruncateEncoding \/ DecodeTruncated

InitTrunc ==
    TruncInit /\ CodecIdle /\ FactorIdle /\ GenIdle /\ ParIdle /\ LaterIdle /\ overflow_checks \in BOOLEAN

SpecTrunc == InitTrunc /\ [][TruncNext]_vars

(***************************************************************************)
(* Prime table engine (src/src/primes.rs)                                  *)
(***************************************************************************)
\* the mathematical notions the claims speak of
\* the least r with r * r >= p (p below 2^30)
RootCeil(p) == CHOOSE r \in 1..p : r * r >= p

IsPrimeNat(p) == p > 1 /\ \A d \in 2..RootCeil(p) : d = p \/ p % d # 0

\* the ascending list of all primes in lo..hi
RECURSIVE PrimesFrom(_, _)
PrimesFrom(lo, hi) ==
    IF lo > hi THEN <<>>
    ELSE IF lo = hi THEN (IF IsPrimeNat(lo) THEN <<lo>> ELSE <<>>)
    ELSE LET mid == (lo + hi) \div 2
         IN  PrimesFrom(lo, mid) \o PrimesFrom(mid + 1, hi)

Range(seq) == {seq[i] : i \in 1..Len(seq)}
Last(seq) == seq[Len(seq)]

\* (n as f64).sqrt() as u32
ISqrt(n) == CHOOSE r \in 0..n : r * r <= n /\ (r + 1) * (r + 1) > n

STARTER_PRIMES == <<2, 3, 5>>

\* u32::MAX - 1
U32MaxMinus1 == [hi |-> HALF - 1, lo |-> HALF - 2]

\* x < y on u32 halves
U32Less(x, y) == x.hi < y.hi \/ (x.hi = y.hi /\ x.lo < y.lo)

\* p * p on u32: [v, ovf], v the product modulo 2^32 as halves. With
\* p = b * 2^16 + a and a = a1 * 2^8 + a0, p * p = a * a + 2ab * 2^16 modulo 2^32.
U32Square(p) ==
    LET a == p % HALF
        b == p \div HALF
        a1 == a \div 256
        a0 == a % 256
        lo == ((2 * a1 * a0) % 256) * 256 + a0 * a0
        hi == (a1 * a1) + ((2 * a1 * a0) \div 256) + (lo \div HALF)
                + ((2 * (a * (b % 256))) % HALF)
                + (((2 * a * (b \div 256)) % 256) * 256)
    IN  [v |-> [hi |-> hi % HALF, lo |-> lo % HALF], ovf |-> b > 0]

\* x as an integer of the model (x below 2^31)
U32ToInt(x) == (x.hi * HALF) + x.lo

\* one step of the long division by p (0 < p < 2^23) on base-256 digits: r
\* is the remainder so far, d the next digit; [q, r] is the quotient digit
\* and the new remainder
WordDiv(r, d, p) == [q |-> ((r * 256) + d) \div p, r |-> ((r * 256) + d) % p]

\* x / p and x % p on a u32 x as halves: [q, r], q as halves
U32DivMod(x, p) ==
    LET d3 == WordDiv(0, x.hi \div 256, p)
        d2 == WordDiv(d3.r, x.hi % 256, p)
        d1 == WordDiv(d2.r, x.lo \div 256, p)
        d0 == WordDiv(d1.r, x.lo % 256, p)
    IN  [q |-> [hi |-> (d3.q * 256) + d2.q, lo |-> (d1.q * 256) + d0.q], r |-> d0.r]

\* index_in_prime_list counting the entries from one
index_in_prime_list_OneBased(k, prms) ==
    IF \E i \in 1..Len(prms) : U32Of(prms[i]) = k
    THEN [ok |-> TRUE, ix |-> CHOOSE i \in 1..Len(prms) : U32Of(prms[i]) = k]
    ELSE [ok |-> FALSE, ix |-> 0]

\* index_in_prime_list, k as halves: [ok, ix]; binary_search on the
\* ascending table finds k exactly when k is an entry
index_in_prime_list(k, prms) ==
    IF \E i \in 1..Len(prms) : U32Of(prms[i]) = k
    THEN [ok |-> TRUE, ix |-> (CHOOSE i \in 1..Len(prms) : U32Of(prms[i]) = k) - 1]
    ELSE [ok |-> FALSE, ix |-> 0]

\* is_prime
is_prime(n, prms) == index_in_prime_list(n, prms).ok

\* (n as f64).sqrt() as u32 > last, n as halves: the square root of a u32 is
\* exact enough in f64 for its truncation to be the integer square root, and
\* that exceeds last exactly when n >= (last + 1) * (last + 1)
SqrtExceeds(n, last) ==
    LET sq == U32Square(last + 1)
    IN  ~sq.ovf /\ ~U32Less(n, sq.v)

\* the entry check done on the truncated square root, as at line 107
FactorTableTooSmall_Sqrt(n, prms) == SqrtExceeds(n, Last(prms))

\* the entry check of factor, n as halves: last_prime * last_prime < n in
\* u64, where a square of 2^32 or more is not below a u32
FactorTableTooSmall(n, prms) ==
    LET sq == U32Square(Last(prms))
    IN  ~sq.ovf /\ U32Less(sq.v, n)

\* indices_to_prime_factors
indices_to_prime_factors(ixs, prms) == [i \in 1..Len(ixs) |-> prms[ixs[i] + 1]]

\* the loop condition with the upper bound left out of the range
InRangeLoopCond_Exclusive(candidate, upper_bound) == candidate < upper_bound

\* the loop condition of gen_primes_in_range
InRangeLoopCond(candidate, upper_bound) == candidate <= upper_bound

\* the `while candidate <= upper_bound` loop of gen_primes_in_range
RECURSIVE GenPrimesLoop(_, _, _, _)
GenPrimesLoop(old_prms_slice, candidate, upper_bound, new_prms) ==
    IF ~InRangeLoopCond(candidate, upper_bound) THEN new_prms
    ELSE
    LET factor_found == \E i \in 1..Len(old_prms_slice) : candidate % old_prms_slice[i] = 0
        new1 == IF factor_found THEN new_prms ELSE Append(new_prms, candidate)
    IN  IF U32Less(U32Of(candidate), U32MaxMinus1)
        THEN GenPrimesLoop(old_prms_slice, candidate + 2, upper_bound, new1)
        ELSE new1

\* gen_primes_in_range: [ok, prms]; ok = FALSE is PrimesNotEnoughForRange
gen_primes_in_range(old_prms, primes_up_to, lower_bound, upper_bound) ==
    IF primes_up_to * primes_up_to < upper_bound THEN [ok |-> FALSE, prms |-> <<>>]
    ELSE
    LET candidate == IF lower_bound % 2 = 0 THEN lower_bound + 1 ELSE lower_bound
        old_prms_slice == IF old_prms[1] = 2 THEN Tail(old_prms) ELSE old_prms
    IN  [ok |-> TRUE, prms |-> GenPrimesLoop(old_prms_slice, candidate, upper_bound, <<>>)]

\* one iteration of the loop of gen_primes_up_to: [pc, prms], pc = "panic"
\* when the unwrap of gen_primes_in_range's result fails
GenIteration(prms, n) ==
    LET last_prime == Last(prms)
        \* last_prime * last_prime in u64, capped at u32::MAX: a capped
        \* value exceeds n unless n = u32::MAX, so hi = n either way
        hi == IF last_prime >= HALF THEN n
              ELSE IF last_prime * last_prime > n THEN n
              ELSE last_prime * last_prime
        r == gen_primes_in_range(prms, last_prime, last_prime + 1, hi)
    IN  IF ~r.ok THEN [pc |-> "panic", prms |-> prms]
        ELSE [pc |-> IF hi = n THEN "done" ELSE "loop", prms |-> prms \o r.prms]

\* gen_primes_up_to as one call: [pc, prms]
RECURSIVE GenLoop(_, _)
GenLoop(prms, n) ==
    LET it == GenIteration(prms, n)
    IN  IF it.pc = "loop" THEN GenLoop(it.prms, n) ELSE it

gen_primes_up_to(n) == GenLoop(STARTER_PRIMES, n)

\* shard_prime_calc: [ovf, ranges]; ovf: prime_upper_bound - prime_lower_bound
\* wrapped (the wrapped difference is beyond the integers of this model).
\* The floats hold the quotients exactly enough for `as u32` to floor them.
\* upper is next_rng_lower - 1 as an integer: it is -1 where the u32
\* subtraction of line 270 goes below 0 (a lower bound of 0 only).
shard_prime_calc(chunks, prime_upper_bound, prime_lower_bound) ==
    IF prime_upper_bound < prime_lower_bound THEN [ovf |-> TRUE, ranges |-> <<>>]
    ELSE
    LET total_range == prime_upper_bound - prime_lower_bound
    IN  [ovf |-> FALSE,
         ranges |-> [j \in 1..chunks |->
            LET i == j - 1
                rng_lower == prime_lower_bound + ((i * total_range) \div chunks)
                next_rng_lower == prime_lower_bound + (((i + 1) * total_range) \div chunks)
            IN  [upper |-> IF i = chunks - 1 THEN prime_upper_bound ELSE next_rng_lower - 1,
                 lower |-> rng_lower]]]

(***************************************************************************)
(* factor(n, prms), one statement group per step                           *)
(***************************************************************************)
\* the tables handed to factor: all primes up to some bound
FactorTables == {PrimesFrom(2, bound) : bound \in 2..MaxTableBound}

FactorInit ==
    /\ f_n \in {U32Of(n) : n \in 2..MaxFactorN} /\ f_prms \in FactorTables
    /\ f_pc = "start" /\ f_idx = 0 /\ f_num = U32Zero /\ f_factors = <<>> /\ f_divs = 0
    /\ f_result = "none"

FactorOther == <<overflow_checks, later_vars, codec_vars, enc_vars, gen_vars, par_vars>>

\* lines 74-81: the entry check and the initialisation
FactorEnter ==
    /\ f_pc = "start"
    /\ IF FactorTableTooSmall(f_n, f_prms)
       THEN /\ f_result' = "NotEnoughPrimesToFactorIt" /\ f_pc' = "done"
            /\ UNCHANGED <<f_idx, f_num, f_factors>>
       ELSE /\ f_idx' = 0 /\ f_num' = f_n /\ f_factors' = <<>>
            /\ f_pc' = "loop" /\ f_result' = f_result
    /\ UNCHANGED <<f_n, f_prms, f_divs, FactorOther>>

\* lines 82-87: the test of the outer while and the table lookup
FactorLoopTop ==
    /\ f_pc = "loop"
    /\ IF U32Less(U32One, f_num)
       THEN LET r == index_in_prime_list(f_num, f_prms)
            IN  IF r.ok
                THEN /\ f_factors' = Append(f_factors, r.ix)
                     /\ f_result' = "Ok" /\ f_pc' = "done"
                ELSE /\ f_pc' = "scan"
                     /\ UNCHANGED <<f_factors, f_result>>
       ELSE /\ f_pc' = "after"
            /\ UNCHANGED <<f_factors, f_result>>
    /\ UNCHANGED <<f_n, f_prms, f_idx, f_num, f_divs, FactorOther>>

\* lines 88-105: the inner while, run to its break or to the end of the
\* table, and the test that follows it; p * p is a u32 product, which a
\* checked build refuses to wrap
FactorScan ==
    /\ f_pc = "scan"
    /\ LET prms_len == Len(f_prms)
           Divides(i) == U32DivMod(f_num, f_prms[i + 1]).r = 0
           Overflows(i) == U32Square(f_prms[i + 1]).ovf /\ overflow_checks
           \* the pass at index i leaves the loop, by a break or by a panic
           Leaves(i) ==
               Divides(i) \/ Overflows(i) \/ U32Less(f_n, U32Square(f_prms[i + 1]).v)
       IN  IF \E i \in f_idx..(prms_len - 1) : Leaves(i)
           THEN LET i == CHOOSE c \in f_idx..(prms_len - 1) :
                            Leaves(c) /\ \A j \in f_idx..(c - 1) : ~Leaves(j)
                IN  /\ f_divs' = f_divs + ((i - f_idx) + 1)
                    /\ IF Divides(i)
                       THEN /\ f_factors' = Append(f_factors, i)
                            /\ f_num' = U32DivMod(f_num, f_prms[i + 1]).q
                            /\ f_idx' = 0
                            /\ f_pc' = "loop"
                            /\ f_result' = f_result
                       ELSE IF Overflows(i)
                       THEN /\ f_pc' = "done" /\ f_result' = "panic"
                            /\ f_idx' = i
                            /\ UNCHANGED <<f_factors, f_num>>
                       ELSE /\ f_pc' = "after"
                            /\ f_idx' = i
                            /\ UNCHANGED <<f_factors, f_num, f_result>>
           ELSE /\ f_divs' = f_divs + (prms_len - f_idx)
                /\ f_idx' = prms_len
                /\ f_pc' = "after"
                /\ UNCHANGED <<f_factors, f_num, f_result>>
    /\ UNCHANGED <<f_n, f_prms, FactorOther>>

\* lines 107-114: the result
FactorFinish ==
    /\ f_pc = "after"
    /\ f_result' = (IF SqrtExceeds(f_n, Last(f_prms)) THEN "NotEnoughPrimesToFactorIt"
                    ELSE IF f_factors = <<>> THEN "NIsBigPrime"
                    ELSE IF U32Less(U32One, f_num) THEN "AlgorithmFailed"
                    ELSE "Ok")
    /\ f_pc' = "done"
    /\ UNCHANGED <<f_n, f_prms, f_idx, f_num, f_factors, f_divs, FactorOther>>

FactorNext == FactorEnter \/ FactorLoopTop \/ FactorScan \/ FactorFinish

InitFactor ==
    FactorInit /\ CodecIdle /\ EncIdle /\ GenIdle /\ ParIdle /\ LaterIdle /\ overflow_checks \in BOOLEAN

SpecFactor == InitFactor /\ [][FactorNext]_vars

(***************************************************************************)
(* factor(n, prms) on operands near u32::MAX, with the complete table up   *)
(* to 65537, the first prime whose square does not fit a u32               *)
(***************************************************************************)
\* the complete table of the primes up to top
FactorWideTable(top) == PrimesFrom(2, top)

\* the MaxWideNs largest u32 values, among them 2^32 - 5 (the largest prime
\* below 2^32), 2^32 - 2 = 2 * (2^31 - 1) and 2^32 - 1 = 3 * 5 * 17 * 257 * 65537
FactorWideNs == {[hi |-> HALF - 1, lo |-> HALF - k] : k \in 1..MaxWideNs}

FactorWideInit ==
    /\ f_prms = FactorWideTable(HALF + 1) /\ f_n \in FactorWideNs
    /\ f_pc = "start" /\ f_idx = 0 /\ f_num = U32Zero /\ f_factors = <<>> /\ f_divs = 0
    /\ f_result = "none"

InitFactorWide ==
    FactorWideInit /\ CodecIdle /\ EncIdle /\ GenIdle /\ ParIdle /\ LaterIdle /\ overflow_checks \in BOOLEAN

SpecFactorWide == InitFactorWide /\ [][FactorNext]_vars

(***************************************************************************)
(* gen_primes_up_to(n), one iteration of its loop per step                 *)
(***************************************************************************)
GenInit == g_n \in 2..MaxGenN /\ g_prms = STARTER_PRIMES /\ g_pc = "loop"

\* one iteration of the loop, lines 179-187
GenLoopStep ==
    /\ g_pc = "loop"
    /\ LET it == GenIteration(g_prms, g_n)
       IN  g_prms' = it.prms /\ g_pc' = it.pc
    /\ UNCHANGED <<g_n, overflow_checks, later_vars, codec_vars, enc_vars, factor_vars, par_vars>>

GenNext == GenLoopStep

InitGen ==
    GenInit /\ CodecIdle /\ EncIdle /\ FactorIdle /\ ParIdle /\ LaterIdle /\ overflow_checks \in BOOLEAN

SpecGen == InitGen /\ [][GenNext]_vars

(***************************************************************************)
(* parallel_calc_primes(nthreads, highest_candidate): the coordinator and  *)
(* its scoped worker threads, one mpsc channel per worker                  *)
(***************************************************************************)
MIN_PER_THREAD_RANGE_COUNT == 10
NORMAL_RANGE_SIZE == 1000000

Max(a, b) == IF a >= b THEN a ELSE b

\* highest candidates for which a run with 1, 2 and 3 threads finds a prime
\* in every shard
ParBigNs == {51, 167, 276}

ParInit ==
    /\ p_n \in (2..MaxParN) \cup ParBigNs
    /\ p_nthreads \in 1..MaxThreads
    /\ p_pc = "setup" /\ p_cause = "" /\ p_pbr = 0
    /\ p_base = <<>> /\ p_count = 0 /\ p_ranges = <<>> /\ p_prms = <<>>
    /\ p_k = 0 /\ p_t = 0 /\ p_log = <<>>
    /\ p_wstate = <<>> /\ p_wpos = <<>> /\ p_chan = <<>>

ParOther == <<overflow_checks, later_vars, codec_vars, enc_vars, factor_vars, gen_vars>>

\* every thread given a block of neighbouring shards
ShardIndex_Blocked(t, k, nthreads) == (t * MIN_PER_THREAD_RANGE_COUNT) + k

\* the index into small_ranges of chunk k of thread t (line 317)
ShardIndex(t, k, nthreads) == t + (nthreads * k)

\* candidate_count of lines 309-323: the u32 sum of (upper - lower) + 1 over
\* the additions lo..hi-1 of the loops, taken thread by thread: [v, ovf], ovf
\* when a subtraction or an addition wrapped. The terms are added pairwise
\* (u32 addition is associative, and a sum of u32 terms wraps somewhere
\* exactly when it wraps taken in order).
RECURSIVE CandidateCount(_, _, _, _, _)
CandidateCount(ranges, nthreads, count, lo, hi) ==
    IF hi = lo THEN [v |-> U32Zero, ovf |-> FALSE]
    ELSE IF hi = lo + 1
    THEN LET r == ranges[ShardIndex(lo \div count, lo % count, nthreads) + 1]
             d == U32SubSmall(r.upper, r.lower)
             d1 == U32Add(d.v, U32One)
         IN  [v |-> d1.v, ovf |-> d.ovf \/ d1.ovf]
    ELSE LET mid == (lo + hi) \div 2
             left == CandidateCount(ranges, nthreads, count, lo, mid)
             right == CandidateCount(ranges, nthreads, count, mid, hi)
             sum == U32Add(left.v, right.v)
         IN  [v |-> sum.v, ovf |-> left.ovf \/ right.ovf \/ sum.ovf]

\* lines 291-324, the base table, the shards and their assignment, as the
\* values the coordinator holds after them: [pc, cause, pbr, base, count,
\* ranges]; count and ranges are set when the coordinator goes on to spawn
SetupOutcome(nthreads, highest_candidate, checked) ==
    LET prime_base_range == ISqrt(highest_candidate) + 1
        base == gen_primes_up_to(prime_base_range)
        last_base_prm == Last(base.prms)
        per_thread_range_count ==
            Max(MIN_PER_THREAD_RANGE_COUNT,
                (highest_candidate - last_base_prm) \div (nthreads * NORMAL_RANGE_SIZE))
        shards == shard_prime_calc(nthreads * per_thread_range_count, highest_candidate,
                                   prime_base_range + 1)
        cc == CandidateCount(shards.ranges, nthreads, per_thread_range_count,
                            0, nthreads * per_thread_range_count)
        Stop(pc, cause) ==
            [pc |-> pc, cause |-> cause, pbr |-> prime_base_range, base |-> base.prms,
             count |-> 0, ranges |-> <<>>]
    IN  IF base.pc = "panic" THEN Stop("panic", "unwrap")
        ELSE IF highest_candidate < last_base_prm \/ shards.ovf
        THEN \* highest_candidate - last_base_prm wraps: a checked build
             \* panics; an unchecked one goes on with 4294 \div nthreads
             \* ranges per thread, which this model does not follow
             IF checked THEN Stop("panic", "overflow") ELSE Stop("wrapped", "")
        ELSE IF per_thread_range_count = 0 THEN Stop("panic", "unable to shard")
        ELSE IF cc.ovf /\ checked THEN Stop("panic", "overflow")
        ELSE IF cc.v # U32Of(highest_candidate - prime_base_range) THEN Stop("panic", "assert")
        ELSE [pc |-> "spawn", cause |-> "", pbr |-> prime_base_range, base |-> base.prms,
              count |-> per_thread_range_count, ranges |-> shards.ranges]

\* SetupOutcome over the arguments of ParInit and the two builds, computed
\* once
SetupOutcomes ==
    [nthreads \in 1..MaxThreads, highest_candidate \in (2..MaxParN) \cup ParBigNs,
     checked \in BOOLEAN |-> SetupOutcome(nthreads, highest_candidate, checked)]

\* lines 291-324 as one step of the coordinator
ParSetup ==
    /\ p_pc = "setup"
    /\ \E r \in {SetupOutcomes[p_nthreads, p_n, overflow_checks]} :
           /\ p_pbr' = r.pbr
           /\ p_base' = r.base
           /\ p_pc' = r.pc /\ p_cause' = r.cause
           /\ IF r.pc = "spawn"
              THEN p_count' = r.count /\ p_ranges' = r.ranges /\ p_prms' = r.base
              ELSE UNCHANGED <<p_count, p_ranges, p_prms>>
    /\ UNCHANGED <<p_n, p_nthreads, p_k, p_t, p_log, p_wstate, p_wpos, p_chan, ParOther>>

\* lines 333-380: a channel and a thread per entry of per_thread_ranges
ParSpawn ==
    /\ p_pc = "spawn"
    /\ p_wstate' = [t \in 0..(p_nthreads - 1) |-> "running"]
    /\ p_wpos' = [t \in 0..(p_nthreads - 1) |-> 0]
    /\ p_chan' = [t \in 0..(p_nthreads - 1) |-> <<>>]
    /\ p_k' = 0 /\ p_t' = 0
    /\ p_pc' = "collect"
    /\ UNCHANGED <<p_n, p_nthreads, p_cause, p_pbr, p_base, p_count, p_ranges, p_prms,
                   p_log, ParOther>>

\* lines 351-376: worker t takes its next chunk, computes its primes and
\* sends them; a PrimesNotEnoughForRange result makes it panic. It ends
\* after its last chunk.
WorkerChunk(t) ==
    /\ p_pc \in {"collect", "join", "panic"}
    /\ p_wstate[t] = "running"
    /\ LET chunk == p_ranges[ShardIndex(t, p_wpos[t], p_nthreads) + 1]
           gen_result == gen_primes_in_range(p_base, p_pbr, chunk.lower, chunk.upper)
       IN  IF gen_result.ok
           THEN /\ p_chan' = [p_chan EXCEPT ![t] = Append(@, gen_result.prms)]
                /\ p_wpos' = [p_wpos EXCEPT ![t] = @ + 1]
                /\ p_wstate' = [p_wstate EXCEPT ![t] =
                                    IF p_wpos[t] + 1 = p_count THEN "done" ELSE "running"]
           ELSE /\ p_wstate' = [p_wstate EXCEPT ![t] = "panicked"]
                /\ UNCHANGED <<p_chan, p_wpos>>
    /\ UNCHANGED <<p_n, p_nthreads, p_pc, p_cause, p_pbr, p_base, p_count, p_ranges, p_prms,
                   p_k, p_t, p_log, ParOther>>

\* a collection loop that visits the first thread only
NextKT_FirstThreadOnly(k, t, nthreads) == [k |-> k + 1, t |-> 0]

\* the (k, t) that follows (k, t) in `for k { for t { .. } }` of lines 384-385
NextKT(k, t, nthreads) ==
    IF t + 1 < nthreads THEN [k |-> k, t |-> t + 1] ELSE [k |-> k + 1, t |-> 0]

\* lines 386-395 with a message waiting: receive chunk k of thread t, read
\* its first prime, check it and append the chunk
ParRecv ==
    /\ p_pc = "collect"
    /\ p_chan[p_t] # <<>>
    /\ LET rcvd_prms == Head(p_chan[p_t])
           highest_prm == IF p_k > 0 \/ p_t > 0 THEN Last(p_base) ELSE 0
           nxt == NextKT(p_k, p_t, p_nthreads)
       IN  /\ p_chan' = [p_chan EXCEPT ![p_t] = Tail(@)]
           /\ IF rcvd_prms = <<>>
              THEN /\ p_pc' = "panic" /\ p_cause' = "index out of bounds"
                   /\ UNCHANGED <<p_prms, p_k, p_t, p_log>>
              ELSE IF ~(highest_prm < rcvd_prms[1])
              THEN /\ p_pc' = "panic" /\ p_cause' = "assert"
                   /\ UNCHANGED <<p_prms, p_k, p_t, p_log>>
              ELSE /\ p_prms' = p_prms \o rcvd_prms
                   /\ p_log' = Append(p_log, ShardIndex(p_t, p_k, p_nthreads))
                   /\ p_k' = nxt.k /\ p_t' = nxt.t
                   /\ p_pc' = (IF nxt.k >= p_count THEN "join" ELSE "collect")
                   /\ p_cause' = ""
    /\ UNCHANGED <<p_n, p_nthreads, p_pbr, p_base, p_count, p_ranges, p_wstate, p_wpos,
                   ParOther>>

\* lines 388-391 with no message waiting: recv_timeout gives up after 100 s
\* on a worker that is still computing, or finds the channel closed by a
\* worker that panicked
ParRecvFails ==
    /\ p_pc = "collect"
    /\ p_chan[p_t] = <<>>
    /\ p_pc' = "panic"
    /\ p_cause' = (IF p_wstate[p_t] = "running" THEN "timeout" ELSE "disconnected")
    /\ UNCHANGED <<p_n, p_nthreads, p_pbr, p_base, p_count, p_ranges, p_prms,
                   p_k, p_t, p_log, p_wstate, p_wpos, p_chan, ParOther>>

\* lines 400-406: join every child, then return prms
ParJoin ==
    /\ p_pc = "join"
    /\ \A t \in 0..(p_nthreads - 1) : p_wstate[t] # "running"
    /\ IF \E t \in 0..(p_nthreads - 1) : p_wstate[t] = "panicked"
       THEN p_pc' = "panic" /\ p_cause' = "join"
       ELSE p_pc' = "returned" /\ p_cause' = ""
    /\ UNCHANGED <<p_n, p_nthreads, p_pbr, p_base, p_count, p_ranges, p_prms,
                   p_k, p_t, p_log, p_wstate, p_wpos, p_chan, ParOther>>

ParNext ==
    \/ ParSetup
    \/ ParSpawn
    \/ \E t \in DOMAIN p_wstate : WorkerChunk(t)
    \/ ParRecv
    \/ ParRecvFails
    \/ ParJoin

InitPar ==
    ParInit /\ CodecIdle /\ EncIdle /\ FactorIdle /\ GenIdle /\ LaterIdle /\ overflow_checks \in BOOLEAN

SpecPar == InitPar /\ [][ParNext]_vars

(***************************************************************************)
(* shard_prime_calc(chunks, upper, lower) alone, followed by the candidate *)
(* count that parallel_calc_primes takes over its result and asserts       *)
(***************************************************************************)
ShardInit ==
    /\ s_chunks \in 1..MaxChunks
    /\ s_lower \in 0..MaxShardLower
    /\ s_upper \in s_lower..(s_lower + MaxShardSpan)
    /\ s_pc = "call" /\ s_cause = "" /\ s_ranges = <<>>

ShardOther == <<overflow_checks, early_vars, file_vars, drv_vars, last_vars>>

\* lines 260-279: the call; `next_rng_lower as u32 - 1` of line 270 below 0
\* panics in a checked build and wraps to u32::MAX in an unchecked one
ShardCall ==
    /\ s_pc = "call"
    /\ LET shards == shard_prime_calc(s_chunks, s_upper, s_lower)
       IN  IF overflow_checks /\ \E j \in 1..s_chunks : shards.ranges[j].upper < 0
           THEN s_pc' = "panic" /\ s_cause' = "overflow" /\ s_ranges' = s_ranges
           ELSE s_pc' = "count" /\ s_cause' = "" /\ s_ranges' = shards.ranges
    /\ UNCHANGED <<s_chunks, s_upper, s_lower, ShardOther>>

\* the upper bound of a returned range as the u32 it is
RangeUpper(r) == IF r.upper < 0 THEN U32Max ELSE U32Of(r.upper)

\* candidate_count of lines 309-323 over the ranges of one thread:
\* (upper - lower) + 1 added up in u32, [v, ovf]
RECURSIVE CountRanges(_, _, _)
CountRanges(ranges, j, acc) ==
    IF j > Len(ranges) THEN acc
    ELSE LET up == RangeUpper(ranges[j])
             lw == U32Of(ranges[j].lower)
             d == U32Sub(up, lw)
             d1 == U32Add(d.v, U32One)
             sum == U32Add(acc.v, d1.v)
         IN  CountRanges(ranges, j + 1,
                         [v |-> sum.v, ovf |-> acc.ovf \/ d.ovf \/ d1.ovf \/ sum.ovf])

\* lines 309-324: candidate_count and
\* assert!(candidate_count == highest_candidate - prime_base_range), where
\* prime_lower_bound is prime_base_range + 1
ShardCount ==
    /\ s_pc = "count"
    /\ LET cc == CountRanges(s_ranges, 1, [v |-> U32Zero, ovf |-> FALSE])
       IN  IF cc.ovf /\ overflow_checks THEN s_pc' = "panic" /\ s_cause' = "overflow"
           ELSE IF cc.v # U32Of((s_upper - s_lower) + 1)
           THEN s_pc' = "panic" /\ s_cause' = "assert"
           ELSE s_pc' = "done" /\ s_cause' = ""
    /\ UNCHANGED <<s_chunks, s_upper, s_lower, s_ranges, ShardOther>>

ShardNext == ShardCall \/ ShardCount

InitShard == ShardInit /\ EarlyIdle /\ FileIdle /\ DrvIdle /\ LastIdle /\ overflow_checks \in BOOLEAN

SpecShard == InitShard /\ [][ShardNext]_vars

(***************************************************************************)
(* The prime table file (write_primes, read_primes). A table is a sequence *)
(* of runs [v, reps], the u32 v repeated reps times, and a file a sequence *)
(* of runs [rec, reps] of 4-byte records followed by tail bytes that fill  *)
(* no record, so that tables of 2^30 entries and more have a model.        *)
(***************************************************************************)
BYTES_PER_U32 == 4

\* a u32 written least significant byte first
to_le_bytes(x) == <<x.lo % 256, x.lo \div 256, x.hi % 256, x.hi \div 256>>

\* u32::to_be_bytes
to_be_bytes(x) == <<x.hi \div 256, x.hi % 256, x.lo \div 256, x.lo % 256>>

\* the u32 that read_u32_into::<BigEndian> makes of 4 bytes
from_be_bytes(b) == [hi |-> (b[1] * 256) + b[2], lo |-> (b[3] * 256) + b[4]]

\* how many entries a sequence of runs holds
RECURSIVE RunsLen(_)
RunsLen(runs) ==
    IF runs = <<>> THEN 0
    ELSE IF Len(runs) = 1 THEN runs[1].reps
    ELSE LET h == Len(runs) \div 2
         IN  RunsLen(SubSeq(runs, 1, h)) + RunsLen(SubSeq(runs, h + 1, Len(runs)))

\* the file write_primes leaves when every write_all succeeds (line 211)
WrittenFile(prms) ==
    [exists |-> TRUE,
     recs |-> [i \in 1..Len(prms) |-> [rec |-> to_be_bytes(prms[i].v), reps |-> prms[i].reps]],
     tail |-> 0]

\* prime_count of line 240: fsz as u32 / BYTES_PER_U32, fsz the file size
\* in bytes (a u64; the cast keeps its low 32 bits)
prime_count(file) ==
    (((RunsLen(file.recs) % Pow2(30)) * BYTES_PER_U32) + file.tail) \div BYTES_PER_U32

\* the first count records of a file as table entries (line 243): the runs
\* that start before entry count, the last one cut at count
TakeRecs(recs, count) ==
    LET before(i) == RunsLen(SubSeq(recs, 1, i - 1))
        n == Cardinality({i \in 1..Len(recs) : before(i) < count})
    IN  [i \in 1..n |->
            [v |-> from_be_bytes(recs[i].rec),
             reps |-> IF recs[i].reps >= count - before(i)
                      THEN count - before(i) ELSE recs[i].reps]]

\* read_primes on the file at the pathname: [ok, prms]; ok = FALSE is the
\* Err of File::open
read_primes(file) ==
    IF ~file.exists THEN NoRead
    ELSE [ok |-> TRUE, prms |-> TakeRecs(file.recs, prime_count(file))]

\* the files a failed write_all can leave: some of the records, and maybe a
\* part of one
PartialFiles(prms) ==
    {[exists |-> TRUE, recs |-> SubSeq(WrittenFile(prms).recs, 1, k), tail |-> t] :
        k \in 0..(Len(prms) - 1), t \in {0, BYTES_PER_U32 - 1}}

\* the tables handed to write_primes: the empty one, short ones of sample
\* values, and two of 2^30 entries and more
FileValues == {U32Zero, U32Of(258), [hi |-> Pow2(15), lo |-> 1], U32Max}
FileTables ==
    UNION {[1..n -> [v : FileValues, reps : {1}]] : n \in 0..MaxFileLen}
        \cup {<<[v |-> U32Of(2), reps |-> 1], [v |-> U32Of(3), reps |-> Pow2(30) - 1 + d]>> :
                 d \in 0..MaxFileLen}

FileInit ==
    /\ io_prms \in FileTables
    /\ fs_file \in {NoFile, WrittenFile(<<[v |-> U32Of(2), reps |-> 1]>>)}
    /\ io_pc = "write" /\ io_wres = "none" /\ io_read = NoRead

FileOther == <<overflow_checks, early_vars, shard_vars, drv_vars, last_vars>>

\* lines 199-225: write_primes(&io_prms, upper_bound); the unwrap of line
\* 203 panics on an empty table, File::create may fail (a panic, line 221)
\* and so may a write_all (an Err, line 215)
WritePrimes ==
    /\ io_pc = "write"
    /\ \/ /\ io_prms # <<>>
          /\ fs_file' = WrittenFile(io_prms) /\ io_wres' = "Ok"
       \/ /\ io_prms # <<>>
          /\ fs_file' \in PartialFiles(io_prms) /\ io_wres' = "Err"
       \/ /\ fs_file' = fs_file /\ io_wres' = "panic"
    /\ io_pc' = "read"
    /\ UNCHANGED <<io_prms, io_read, FileOther>>

\* lines 228-251: read_primes(upper_bound) after a write_primes that returned
ReadPrimes ==
    /\ io_pc = "read" /\ io_wres # "panic"
    /\ io_read' = read_primes(fs_file)
    /\ io_pc' = "done"
    /\ UNCHANGED <<fs_file, io_prms, io_wres, FileOther>>

FileNext == WritePrimes \/ ReadPrimes

InitFile == FileInit /\ EarlyIdle /\ ShardIdle /\ DrvIdle /\ LastIdle /\ overflow_checks = FALSE

SpecFile == InitFile /\ [][FileNext]_vars

(***************************************************************************)
(* The table-building drivers: main of main.rs (lines 49-71) and main of   *)
(* bin/generate_primes.rs (lines 25-48) read the table file, generate and  *)
(* write the table when they hold none, and go on to use it                *)
(***************************************************************************)
\* a table of the parallel generator as runs
AsRuns(prms) == [i \in 1..Len(prms) |-> [v |-> U32Of(prms[i]), reps |-> 1]]

\* the upper bounds of the driver runs
DriverNs == {MaxParN} \cup ParBigNs

\* the file found at the pathname: none, a table written earlier, an empty
\* file, a file of 3 bytes
DriverFiles(n) ==
    {NoFile, WrittenFile(AsRuns(PrimesFrom(2, n))),
     [exists |-> TRUE, recs |-> <<>>, tail |-> 0],
     [exists |-> TRUE, recs |-> <<>>, tail |-> BYTES_PER_U32 - 1]}

DrvInit ==
    /\ d_n \in DriverNs /\ d_nthreads \in 1..MaxThreads
    /\ fs_file \in DriverFiles(d_n)
    /\ d_pc = "load" /\ d_read = "none" /\ d_wres = "none" /\ d_prms = <<>> /\ d_trace = <<>>
    /\ io_prms = <<>> /\ io_pc = "unused" /\ io_wres = "none" /\ io_read = NoRead

DrvOther == <<overflow_checks, codec_vars, enc_vars, factor_vars, gen_vars, shard_vars,
              last_vars, io_prms, io_pc, io_wres, io_read>>

\* the table is generated whatever was read
NeedsGeneration_Always(prms) == TRUE

\* if prms.is_empty() (main.rs line 57, generate_primes.rs line 34)
NeedsGeneration(prms) == prms = <<>>

\* read_primes and the test that follows it; an empty prms makes the
\* driver call parallel_calc_primes(nthreads, upper bound)
DrvLoad ==
    /\ d_pc = "load"
    /\ LET read_result == read_primes(fs_file)
           prms == IF read_result.ok THEN read_result.prms ELSE <<>>
       IN  /\ d_read' = (IF ~read_result.ok THEN "Err"
                          ELSE IF read_result.prms = <<>> THEN "OkEmpty" ELSE "Ok")
           /\ d_prms' = prms
           /\ IF NeedsGeneration(prms)
              THEN /\ d_pc' = "generate"
                   /\ d_trace' = <<"read_primes", "parallel_calc_primes">>
                   /\ p_pc' = "setup" /\ p_n' = d_n /\ p_nthreads' = d_nthreads
              ELSE /\ d_pc' = "use"
                   /\ d_trace' = <<"read_primes">>
                   /\ UNCHANGED <<p_pc, p_n, p_nthreads>>
    /\ UNCHANGED <<d_n, d_nthreads, d_wres, fs_file, p_cause, p_pbr, p_base, p_count,
                   p_ranges, p_prms, p_k, p_t, p_log, p_wstate, p_wpos, p_chan, DrvOther>>

\* parallel_calc_primes returned: write_primes(&prms, upper bound), and a
\* panic when it returns Err (write_primes panics itself when File::create
\* fails)
DrvPersist ==
    /\ d_pc = "generate" /\ p_pc = "returned"
    /\ d_trace' = Append(d_trace, "write_primes")
    /\ d_prms' = AsRuns(p_prms)
    /\ \/ /\ fs_file' = WrittenFile(AsRuns(p_prms)) /\ d_wres' = "Ok" /\ d_pc' = "use"
       \/ /\ fs_file' \in PartialFiles(AsRuns(p_prms)) /\ d_wres' = "Err" /\ d_pc' = "abort"
       \/ /\ fs_file' = fs_file /\ d_wres' = "panic" /\ d_pc' = "abort"
    /\ UNCHANGED <<d_n, d_nthreads, d_read, par_vars, DrvOther>>

\* parallel_calc_primes panicked: the panic ends the driver
DrvPanic ==
    /\ d_pc = "generate" /\ p_pc = "panic"
    /\ \A t \in DOMAIN p_wstate : p_wstate[t] # "running"
    /\ d_pc' = "abort"
    /\ UNCHANGED <<d_n, d_nthreads, d_read, d_wres, d_prms, d_trace, fs_file, par_vars,
                   DrvOther>>

\* what follows line 71 of main.rs, line 48 of generate_primes.rs: the
\* table is used
DrvUse ==
    /\ d_pc = "use"
    /\ d_trace' = Append(d_trace, "use")
    /\ d_pc' = "done"
    /\ UNCHANGED <<d_n, d_nthreads, d_read, d_wres, d_prms, fs_file, par_vars, DrvOther>>

DrvNext == DrvLoad \/ ParNext \/ DrvPersist \/ DrvPanic \/ DrvUse

InitDriver ==
    DrvInit /\ CodecIdle /\ EncIdle /\ FactorIdle /\ GenIdle /\ ParIdle /\ ShardIdle
        /\ LastIdle /\ overflow_checks \in BOOLEAN

SpecDriver == InitDriver /\ [][DrvNext]_vars

(***************************************************************************)
(* The same run under fair scheduling and with no receive giving up: every *)
(* thread that can take a step eventually takes it, and recv_timeout waits *)
(* for the message                                                         *)
(***************************************************************************)
ParNextFair ==
    \/ ParSetup
    \/ ParSpawn
    \/ \E t \in DOMAIN p_wstate : WorkerChunk(t)
    \/ ParRecv
    \/ ParJoin

ParFairness ==
    /\ WF_vars(ParSetup) /\ WF_vars(ParSpawn) /\ WF_vars(ParRecv) /\ WF_vars(ParJoin)
    /\ \A t \in 0..(MaxThreads - 1) : WF_vars(t \in DOMAIN p_wstate /\ WorkerChunk(t))

SpecParFair == InitPar /\ [][ParNextFair]_vars /\ ParFairness

(***************************************************************************)
(* parallel_factor_all(biggest_number, nthreads, prms): one worker per     *)
(* range of shard_prime_calc(nthreads, biggest_number, 2), each running    *)
(* test_factors_in_range(lower, upper). factor is a pure function of its   *)
(* arguments, so the calls of the workers are taken one at a time, each    *)
(* through the steps of FactorNext.                                        *)
(***************************************************************************)
\* the calls: every table holds 2, the full one holds every prime up to
\* biggest_number and the short one stops at 3
FaInit ==
    /\ fa_n \in 2..MaxFaN /\ fa_nthreads \in 1..MaxThreads
    /\ fa_prms \in {PrimesFrom(2, fa_n), PrimesFrom(2, 3)}
    /\ fa_pc = "spawn" /\ fa_ranges = <<>> /\ fa_k = <<>> /\ fa_w = <<>> /\ fa_res = <<>>
    /\ fa_active = 0 /\ fa_checked = {} /\ fa_join = 0

FaOther == <<overflow_checks, codec_vars, enc_vars, gen_vars, par_vars, shard_vars, file_vars,
             drv_vars, bb_vars, fn_vars>>

\* lines 449-461: the ranges and one spawned worker per range, its k at lo
FaSpawn ==
    /\ fa_pc = "spawn"
    /\ LET child_range == shard_prime_calc(fa_nthreads, fa_n, 2).ranges
       IN  /\ fa_ranges' = child_range
           /\ fa_k' = [t \in 1..fa_nthreads |-> child_range[t].lower]
    /\ fa_w' = [t \in 1..fa_nthreads |-> "running"]
    /\ fa_res' = [t \in 1..fa_nthreads |-> 0]
    /\ fa_pc' = "join" /\ fa_join' = 0
    /\ UNCHANGED <<fa_n, fa_nthreads, fa_prms, fa_active, fa_checked, factor_vars, FaOther>>

\* the test of `for k in lo..hi` (line 411) leaves hi out of the range
InFactorRange(k, hi) == k < hi

\* lines 411-416: the loop goes on to k and calls factor(k, prms)
FaCall(t) ==
    /\ fa_pc = "join" /\ fa_w[t] = "running" /\ fa_active = 0
    /\ InFactorRange(fa_k[t], fa_ranges[t].upper)
    /\ fa_active' = t
    /\ f_n' = U32Of(fa_k[t]) /\ f_prms' = fa_prms /\ f_pc' = "start" /\ f_idx' = 0
    /\ f_num' = U32Zero /\ f_factors' = <<>> /\ f_divs' = 0 /\ f_result' = "none"
    /\ UNCHANGED <<fa_n, fa_nthreads, fa_prms, fa_pc, fa_ranges, fa_k, fa_w, fa_res,
                   fa_checked, fa_join, FaOther>>

\* prod of lines 420-422 (the products of this model stay far below 2^32)
RECURSIVE FactorsProduct(_)
FactorsProduct(f) == IF f = <<>> THEN 1 ELSE Head(f) * FactorsProduct(Tail(f))

\* lines 417-438: what the worker does with the result of factor(k, prms).
\* Ok: every factor is looked up in the table (a miss returns k) and
\* assert!(prod == k); Err: return k; a panic of factor ends the worker.
FaCheck(t) ==
    /\ fa_active = t /\ f_pc = "done"
    /\ LET k == fa_k[t]
           f == indices_to_prime_factors(f_factors, f_prms)
       IN  IF f_result = "Ok"
           THEN IF \E i \in 1..Len(f) : f[i] \notin Range(f_prms)
                THEN /\ fa_w' = [fa_w EXCEPT ![t] = "returned"]
                     /\ fa_res' = [fa_res EXCEPT ![t] = k]
                     /\ UNCHANGED <<fa_k, fa_checked>>
                ELSE IF FactorsProduct(f) # k
                THEN /\ fa_w' = [fa_w EXCEPT ![t] = "panicked"]
                     /\ UNCHANGED <<fa_k, fa_res, fa_checked>>
                ELSE /\ fa_checked' = fa_checked \cup {k}
                     /\ fa_k' = [fa_k EXCEPT ![t] = k + 1]
                     /\ UNCHANGED <<fa_w, fa_res>>
           ELSE IF f_result = "panic"
           THEN /\ fa_w' = [fa_w EXCEPT ![t] = "panicked"]
                /\ UNCHANGED <<fa_k, fa_res, fa_checked>>
           ELSE /\ fa_w' = [fa_w EXCEPT ![t] = "returned"]
                /\ fa_res' = [fa_res EXCEPT ![t] = k]
                /\ UNCHANGED <<fa_k, fa_checked>>
    /\ fa_active' = 0 /\ f_pc' = "unused"
    /\ UNCHANGED <<fa_n, fa_nthreads, fa_prms, fa_pc, fa_ranges, fa_join,
                   f_n, f_prms, f_idx, f_num, f_factors, f_divs, f_result, FaOther>>

\* line 441: the range is exhausted and the worker returns hi
FaWorkerEnd(t) ==
    /\ fa_pc = "join" /\ fa_w[t] = "running" /\ fa_active # t
    /\ ~InFactorRange(fa_k[t], fa_ranges[t].upper)
    /\ fa_w' = [fa_w EXCEPT ![t] = "returned"]
    /\ fa_res' = [fa_res EXCEPT ![t] = fa_ranges[t].upper]
    /\ UNCHANGED <<fa_n, fa_nthreads, fa_prms, fa_pc, fa_ranges, fa_k, fa_active,
                   fa_checked, fa_join, factor_vars, FaOther>>

\* lines 465-469: the caller joins the next child; join().unwrap() panics
\* if the child panicked and assert!(result == child_range[k].upper) if it
\* returned anything else
FaJoin ==
    /\ fa_pc = "join" /\ fa_join < fa_nthreads
    /\ LET j == fa_join + 1
       IN  /\ fa_w[j] # "running"
           /\ IF fa_w[j] = "panicked" \/ fa_res[j] # fa_ranges[j].upper
              THEN fa_pc' = "panic" /\ fa_join' = fa_join
              ELSE /\ fa_join' = j
                   /\ fa_pc' = IF j = fa_nthreads THEN "returned" ELSE "join"
    /\ UNCHANGED <<fa_n, fa_nthreads, fa_prms, fa_ranges, fa_k, fa_w, fa_res, fa_active,
                   fa_checked, factor_vars, FaOther>>

FaNext ==
    \/ FaSpawn
    \/ \E t \in DOMAIN fa_w : FaCall(t)
    \/ FactorNext
    \/ \E t \in DOMAIN fa_w : FaCheck(t)
    \/ \E t \in DOMAIN fa_w : FaWorkerEnd(t)
    \/ FaJoin

InitFactorAll ==
    FaInit /\ CodecIdle /\ EncIdle /\ FactorIdle /\ GenIdle /\ ParIdle /\ ShardIdle /\ FileIdle
        /\ DrvIdle /\ BbIdle /\ FnIdle /\ overflow_checks \in BOOLEAN

SpecFactorAll == InitFactorAll /\ [][FaNext]_vars

(***************************************************************************)
(* Any sequence of null / append / set / flip / clip / from_str on one     *)
(* DynBitString variable. null and a successful from_str make a new        *)
(* DynBitString; the others mutate the one at hand. A failed assert ends   *)
(* the sequence.                                                           *)
(***************************************************************************)
BbInit ==
    /\ bb_bs = DbsNull /\ bb_prev = DbsNull /\ bb_op = NoOp /\ bb_max = 0 /\ bb_ones = {}
    /\ bb_pc = "ok" /\ bb_ops = 0

BbOther == <<overflow_checks, early_vars, shard_vars, file_vars, drv_vars, fa_vars, fn_vars>>

\* the positions of bs that hold a 1 bit
OnesOf(bs) == {k \in 0..(bs.cnt - 1) : DbsGet(bs, k)}

\* the strings handed to from_str: 'b' and up to MaxStrLen bits, one with a
\* character that is no bit, one without the prefix and the empty string
BitChars(n) == [1..n -> {"0", "1"}]
FromStrInputs ==
    {<<"b">> \o bits : bits \in UNION {BitChars(n) : n \in 0..MaxStrLen}}
        \cup {<<"b", "1", "x", "1">>, <<"1", "0">>, <<>>}

\* the bookkeeping of an operation that mutated the DynBitString into bs,
\* or failed the assert named by pc
BbMutated(name, arg, bs, pc) ==
    /\ bb_pc = "ok" /\ bb_ops < MaxBbOps
    /\ bb_prev' = bb_bs /\ bb_op' = [name |-> name, arg |-> arg] /\ bb_ops' = bb_ops + 1
    /\ bb_pc' = pc
    /\ bb_bs' = IF pc = "ok" THEN bs ELSE bb_bs
    /\ bb_max' = IF pc = "ok" /\ bs.cnt > bb_max THEN bs.cnt ELSE bb_max
    /\ bb_ones' = IF pc = "ok" THEN bb_ones \cup OnesOf(bs) ELSE bb_ones
    /\ UNCHANGED BbOther

\* the bookkeeping of an operation that made the new DynBitString bs
BbMade(name, arg, bs) ==
    /\ bb_pc = "ok" /\ bb_ops < MaxBbOps
    /\ bb_prev' = bb_bs /\ bb_op' = [name |-> name, arg |-> arg] /\ bb_ops' = bb_ops + 1
    /\ bb_pc' = "ok" /\ bb_bs' = bs /\ bb_max' = bs.cnt /\ bb_ones' = OnesOf(bs)
    /\ UNCHANGED BbOther

BbNull == BbMade("null", 0, DbsNull)

BbAppend ==
    \E bit \in BOOLEAN :
        IF DbsAppendAssertOk(bb_bs)
        THEN BbMutated("append", bit, DbsAppend(bb_bs, bit), "ok")
        ELSE BbMutated("append", bit, bb_bs, "panic_capacity")

BbSet ==
    \E ndx \in 0..bb_bs.cnt, bit \in BOOLEAN :
        IF DbsIndexOk(bb_bs, ndx)
        THEN BbMutated("set", <<ndx, bit>>, DbsSet(bb_bs, ndx, bit), "ok")
        ELSE BbMutated("set", <<ndx, bit>>, bb_bs, "panic_index")

BbFlip ==
    \E ndx \in 0..bb_bs.cnt :
        IF DbsIndexOk(bb_bs, ndx)
        THEN BbMutated("flip", ndx, DbsFlip(bb_bs, ndx), "ok")
        ELSE BbMutated("flip", ndx, bb_bs, "panic_index")

BbClip ==
    \E newsz \in 0..MaxClip :
        LET r == DbsClip(bb_bs, newsz)
        IN  BbMutated("clip", newsz, r.bs, IF r.ok THEN "ok" ELSE "panic_capacity")

\* let bs = DynBitString::from_str(str): Ok makes a new DynBitString, Err
\* leaves the one at hand
BbFromStr ==
    \E str \in FromStrInputs :
        LET r == DbsFromStr(str)
        IN  IF r.ok THEN BbMade("from_str", str, r.bs)
            ELSE IF r.cause = "capacity" THEN BbMutated("from_str", str, bb_bs, "panic_capacity")
            ELSE BbMutated("from_str_err", str, bb_bs, "ok")

BbNext == BbNull \/ BbAppend \/ BbSet \/ BbFlip \/ BbClip \/ BbFromStr

InitBitBuffer ==
    BbInit /\ EarlyIdle /\ ShardIdle /\ FileIdle /\ DrvIdle /\ FaIdle /\ FnIdle
        /\ overflow_checks = FALSE

SpecBitBuffer == InitBitBuffer /\ [][BbNext]_vars

(***************************************************************************)
(* Calls that may violate a precondition, on the same DynBitString         *)
(* variable: get / set / flip at any index up to len(), the small-value    *)
(* append_uint32 of values on both sides of 32 on the buffer at hand, and  *)
(* encode_factors, which makes a new buffer when it returns                *)
(***************************************************************************)
\* let _ = bs.get(ndx)
BbGet ==
    \E ndx \in 0..bb_bs.cnt :
        IF DbsIndexOk(bb_bs, ndx)
        THEN BbMutated("get", ndx, bb_bs, "ok")
        ELSE BbMutated("get", ndx, bb_bs, "panic_index")

\* the values handed to the small-value append_uint32
PrecondSmalls == {0, 5, Pow2(5) - 1, Pow2(5), Pow2(5) + 1, Pow2(6)}

\* SmallIntEncoding::from_bitstr_encoding(bs).append_uint32(v): the buffer
\* is left as it was when the call returned or panicked
BbSmallAppend ==
    \E v \in PrecondSmalls :
        LET r == SmallAppend(bb_bs, v)
        IN  /\ bb_pc = "ok" /\ bb_ops < MaxBbOps
            /\ bb_prev' = bb_bs /\ bb_op' = [name |-> "small_append", arg |-> v]
            /\ bb_ops' = bb_ops + 1
            /\ bb_pc' = (IF r.ok THEN "ok" ELSE "panic_small")
            /\ bb_bs' = r.bs
            /\ bb_max' = IF r.bs.cnt > bb_max THEN r.bs.cnt ELSE bb_max
            /\ bb_ones' = bb_ones \cup OnesOf(r.bs)
            /\ UNCHANGED BbOther

\* the index lists handed to encode_factors: the empty one, valid ones, one
\* index 33 times and 33 distinct indices
PrecondInputs ==
    {<<>>, <<0>>, <<1, 1, 3>>, [i \in 1..(Pow2(5) + 1) |-> 2], [i \in 1..(Pow2(5) + 1) |-> i - 1]}

\* let bs = encode_factors(&v): a return makes a new DynBitString, a panic
\* leaves the one at hand
BbEncodeFactors ==
    \E v \in PrecondInputs :
        LET r == encode_factors(v)
        IN  IF r.ok THEN BbMade("encode_factors", v, r.bs)
            ELSE BbMutated("encode_factors", v, bb_bs, "panic_encode")

PrecondNext == BbAppend \/ BbGet \/ BbSet \/ BbFlip \/ BbSmallAppend \/ BbEncodeFactors

InitPrecond ==
    BbInit /\ EarlyIdle /\ ShardIdle /\ FileIdle /\ DrvIdle /\ FaIdle /\ FnIdle
        /\ overflow_checks \in BOOLEAN

SpecPrecond == InitPrecond /\ [][PrecondNext]_vars

(***************************************************************************)
(* The prime-power transform, its expansion, encode_factors and            *)
(* format_factor_encoding_as_string (src/src/encode_prime.rs) called one   *)
(* after the other on the same index list; a call that panics gives no     *)
(* result                                                                  *)
(***************************************************************************)
\* the sequences f[lo], ..., f[hi] one after the other
RECURSIVE FlatRange(_, _, _)
FlatRange(f, lo, hi) ==
    IF lo > hi THEN <<>>
    ELSE IF lo = hi THEN f[lo]
    ELSE FlatRange(f, lo, (lo + hi) \div 2) \o FlatRange(f, ((lo + hi) \div 2) + 1, hi)

\* the body of format_factor_encoding_as_string after line 139, as
\* [ok, out]: every number is encoded in an encoder of its own and printed
\* with to_string; ok = FALSE when one of the asserts or a checked
\* subtraction fails
FormatPrmPowers(prm_powers) ==
    LET l == Len(prm_powers)
        length_encoding == SmallAppend(DbsNull, l - 1)
        small_int_encoding ==
            [i \in 1..l |->
                IF ~(prm_powers[i].exp > 0) THEN [ok |-> FALSE, bs |-> DbsNull]
                ELSE SmallAppend(DbsNull, prm_powers[i].exp - 1)]
        index_encoding ==
            [i \in 1..l |->
                LET prev_index == IF i = 1 THEN 0 ELSE prm_powers[i - 1].prm_idx
                    d == U32SubSmall(prm_powers[i].prm_idx, prev_index)
                IN  IF d.ovf /\ overflow_checks THEN [ok |-> FALSE, bs |-> DbsNull]
                    ELSE U32Append(DbsNull, d.v)]
    IN  IF \/ ~length_encoding.ok
           \/ \E i \in 1..l : ~small_int_encoding[i].ok \/ ~index_encoding[i].ok
        THEN [ok |-> FALSE, out |-> <<>>]
        ELSE [ok |-> TRUE,
              out |-> DbsToString(length_encoding.bs) \o <<" ", "[", " ">>
                        \o FlatRange([i \in 1..l |->
                                DbsToString(small_int_encoding[i].bs) \o <<" ">>], 1, l)
                        \o <<"]", " ", "[", " ">>
                        \o FlatRange([i \in 1..l |->
                                DbsToString(index_encoding[i].bs) \o <<" ">>], 1, l)
                        \o <<" ", "]", " ">>]

\* format_factor_encoding_as_string: [ok, out]; prm_factors[0] of line 32
\* panics on an empty list
format_factor_encoding_as_string(v) ==
    IF Len(v) = 0 THEN [ok |-> FALSE, out |-> <<>>]
    ELSE ValueIn(factors_to_int_as_prms(v),
                 LAMBDA iap : IF ~iap.ok THEN [ok |-> FALSE, out |-> <<>>]
                              ELSE FormatPrmPowers(iap.prm_powers))

\* the index lists of the calls: those of the encoder runs and one index
\* u8::MAX + 1 and u8::MAX + 2 times
PpInputs ==
    EncInputs \cup {[i \in 1..Pow2(BITS_PER_BYTE) |-> 1], [i \in 1..(Pow2(BITS_PER_BYTE) + 1) |-> 1]}

PpInit ==
    /\ pp_in \in PpInputs
    /\ pp_iap = NotCalled /\ pp_exp = NotCalled /\ pp_bs = NotCalled /\ pp_fmt = NotCalled

PpOther ==
    <<overflow_checks, early_vars, shard_vars, file_vars, drv_vars, fa_vars, bb_vars, rng_vars,
      rev_vars>>

\* let iap = factors_to_int_as_prms(&pp_in)
PpTransform ==
    /\ pp_iap.st = "none"
    /\ pp_iap' = IF pp_in = <<>> THEN [st |-> "panic"]
                 ELSE ValueIn(factors_to_int_as_prms(pp_in),
                              LAMBDA r : IF r.ok
                                         THEN [st |-> "ok", prm_powers |-> r.prm_powers]
                                         ELSE [st |-> "panic"])
    /\ UNCHANGED <<pp_in, pp_exp, pp_bs, pp_fmt, PpOther>>

\* the expansion loop of decode_factors on the run list at hand
PpExpand ==
    /\ pp_iap.st = "ok" /\ pp_exp.st = "none"
    /\ pp_exp' = [st |-> "ok",
                  factors |-> ExpandPpwrs(pp_iap.prm_powers, 1, Len(pp_iap.prm_powers))]
    /\ UNCHANGED <<pp_in, pp_iap, pp_bs, pp_fmt, PpOther>>

\* let bs = encode_factors(&pp_in)
PpEncode ==
    /\ pp_iap.st # "none" /\ (pp_iap.st = "ok" => pp_exp.st # "none") /\ pp_bs.st = "none"
    /\ pp_bs' = ValueIn(encode_factors(pp_in),
                        LAMBDA r : IF r.ok THEN [st |-> "ok", bs |-> r.bs]
                                   ELSE [st |-> "panic"])
    /\ UNCHANGED <<pp_in, pp_iap, pp_exp, pp_fmt, PpOther>>

\* let out_str = format_factor_encoding_as_string(&pp_in)
PpFormat ==
    /\ pp_bs.st # "none" /\ pp_fmt.st = "none"
    /\ pp_fmt' = ValueIn(format_factor_encoding_as_string(pp_in),
                         LAMBDA r : IF r.ok THEN [st |-> "ok", out |-> r.out]
                                    ELSE [st |-> "panic"])
    /\ UNCHANGED <<pp_in, pp_iap, pp_exp, pp_bs, PpOther>>

PpNext == PpTransform \/ PpExpand \/ PpEncode \/ PpFormat

InitPrimePowers ==
    PpInit /\ EarlyIdle /\ ShardIdle /\ FileIdle /\ DrvIdle /\ FaIdle /\ BbIdle /\ RngIdle
        /\ RevIdle
        /\ overflow_checks \in BOOLEAN

SpecPrimePowers == InitPrimePowers /\ [][PpNext]_vars

(***************************************************************************)
(* Claims about the codecs and the factor encoder                          *)
(***************************************************************************)
\* an index sequence as decode_factors returns it (entries as halves)
AsU32Seq(s) == [i \in 1..Len(s) |-> U32Of(s[i])]

\* the call pair of SpecEnc has run to its end (a return or a panic)
EncPairDone == enc_status \in {"decoded", "enc_panic", "dec_panic"}

\* no index occurs more than 32 times and at most 32 distinct indices occur
InSmallDomain(s) ==
    /\ Len(s) > 0
    /\ \A i \in 1..Len(s) : Cardinality({j \in 1..Len(s) : s[j] = s[i]}) <= 32
    /\ Cardinality({s[i] : i \in 1..Len(s)}) <= 32

\* C1 (as stated): for every non-empty non-decreasing index sequence s,
\* decode_factors(encode_factors(s)) returns exactly s.
C1_RoundTripAnySequence ==
    (enc_in # <<>> /\ EncPairDone)
        => (enc_status = "decoded" /\ dec_out = AsU32Seq(enc_in))

\* C1 (amended): for every non-empty non-decreasing index sequence s in which
\* no index occurs more than 32 times and at most 32 distinct indices occur,
\* decode_factors(encode_factors(s)) returns exactly s.
C1_RoundTripInDomain ==
    (InSmallDomain(enc_in) /\ EncPairDone)
        => (enc_status = "decoded" /\ dec_out = AsU32Seq(enc_in))

\* a sequence of two runs, one of them 32 long, came back from the decoder
C1_Witness ==
    /\ enc_status = "decoded" /\ InSmallDomain(enc_in)
    /\ Len(enc_in) > 32 /\ enc_in[1] # enc_in[Len(enc_in)] /\ enc_in[1] > 0
    /\ dec_out = AsU32Seq(enc_in)

\* C3: U32Encoding::read_uint32 at cursor 0 on the buffer append_uint32(v)
\* made from an empty buffer returns v, for every u32 v, and no other value
\* has the same bit string.
C3_U32RoundTrip ==
    (Len(written) = 1 /\ written[1].kind = "u32")
        => /\ cstatus = "panic" => Len(readvals) = 1
           /\ Len(readvals) = 1 => readvals[1] = written[1].v
           /\ \A w \in U32Samples \ {written[1].v} :
                ~DbsEq(U32Append(DbsNull, w).bs, bstr)

\* 0xFFFFFFFF alone in a buffer was read back
C3_Witness ==
    /\ Len(written) = 1 /\ written[1] = [kind |-> "u32", v |-> U32Max, end |-> 38]
    /\ readvals = <<U32Max>> /\ cstatus = "ok"

\* C4: SmallIntEncoding::read_uint32 at cursor 0 on the buffer
\* append_uint32(v) made from an empty buffer returns v, for every v in 0..31.
C4_SmallRoundTrip ==
    /\ (written = <<>> /\ cstatus = "panic" /\ last_in.kind = "small")
          => ~(last_in.v.lo \in 0..31 /\ last_in.v.hi = 0)
    /\ (Len(written) = 1 /\ written[1].kind = "small")
          => /\ cstatus = "panic" => Len(readvals) = 1
             /\ Len(readvals) = 1 => readvals[1] = written[1].v

\* 31 alone in a buffer was read back
C4_Witness ==
    /\ Len(written) = 1 /\ written[1].kind = "small" /\ written[1].v = U32Of(31)
    /\ readvals = <<U32Of(31)>> /\ cstatus = "ok"

\* the buffer that holds the first appended value alone
FirstAlone ==
    IF written[1].kind = "small" THEN SmallAppend(DbsNull, written[1].v.lo).bs
    ELSE U32Append(DbsNull, written[1].v).bs

\* where a read from cursor 0 of buffer bs with written[1]'s codec ends
FirstReadEnd(bs) ==
    IF written[1].kind = "small" THEN SmallRead(bs, 0).cur ELSE U32Read(bs, 0).cur

\* C5: values appended in order to one buffer are read back in order from
\* cursor 0, each read leaving the cursor at the buffer length that existed
\* right after the matching append (the last one at the buffer length), and a
\* read consumes the same bits whatever follows its encoding.
C5_SelfDelimiting ==
    /\ Len(readvals) <= Len(written)
    /\ \A i \in 1..Len(readvals) : readvals[i] = written[i].v
    /\ cstatus = "ok" =>
          cursor = (IF readvals = <<>> THEN 0 ELSE written[Len(readvals)].end)
    /\ (cstatus = "ok" /\ written # <<>> /\ Len(readvals) = Len(written))
          => cursor = bstr.cnt
    /\ (cstatus = "panic" /\ written # <<>>) => Len(readvals) = Len(written)
    /\ written # <<>> =>
          /\ FirstReadEnd(bstr) = FirstAlone.cnt
          /\ FirstReadEnd(FirstAlone) = FirstAlone.cnt

\* a value of each codec was appended and both were read back
C5_Witness ==
    /\ Len(written) = 2 /\ Len(readvals) = 2 /\ cstatus = "ok"
    /\ written[1].kind = "u32" /\ written[1].v = U32Max
    /\ written[2].kind = "small" /\ written[2].v = U32Of(7)
    /\ cursor = bstr.cnt /\ cursor > written[1].end

(***************************************************************************)
(* Claims about the prime table engine                                     *)
(***************************************************************************)
NonDecreasing(s) == \A i \in 1..(Len(s) - 1) : s[i] <= s[i + 1]

StrictlyIncreasing(s) == \A i \in 1..(Len(s) - 1) : s[i] < s[i + 1]

\* the product of the table primes at the indices ixs
RECURSIVE Product(_, _)
Product(ixs, prms) ==
    IF ixs = <<>> THEN 1 ELSE prms[Head(ixs) + 1] * Product(Tail(ixs), prms)

\* every prime that divides n is an entry of the table
AllPrimeFactorsInTable(n, prms) ==
    \A q \in 2..n : (IsPrimeNat(q) /\ n % q = 0) => q \in Range(prms)

\* the table's largest prime is at least the square root of n
CoversSqrt(n, prms) == Last(prms) * Last(prms) >= n

\* what C2 asks of an Ok result
OkResultIsFactorisation ==
    /\ \A i \in 1..Len(f_factors) : f_factors[i] < Len(f_prms)
    /\ NonDecreasing(f_factors)
    /\ Product(f_factors, f_prms) = U32ToInt(f_n)

\* C2 (as stated): when the table is the complete list of primes up to a
\* bound that covers the square root, factor(n, table) returns Ok with a
\* non-decreasing index sequence whose table primes multiply to n.
C2_FactorOkWhenSqrtCovered ==
    (f_pc = "done" /\ CoversSqrt(U32ToInt(f_n), f_prms))
        => (f_result = "Ok" /\ OkResultIsFactorisation)

\* C2 (amended): factor(n, table) returns Ok exactly when the table's largest
\* prime P has P*P >= n and every prime factor of n is in the table, and every
\* Ok result is a non-decreasing index sequence whose table primes multiply
\* to n.
C2_FactorOkIffFactorsInTable ==
    f_pc = "done" =>
        /\ (f_result = "Ok")
              <=> (CoversSqrt(U32ToInt(f_n), f_prms) /\ AllPrimeFactorsInTable(U32ToInt(f_n), f_prms))
        /\ f_result = "Ok" => OkResultIsFactorisation

\* 150 = 2 * 3 * 5 * 5 was factored with a table that ends beyond 5
C2_Witness ==
    /\ f_pc = "done" /\ f_result = "Ok" /\ f_n = U32Of(150)
    /\ f_factors = <<0, 1, 2, 2>> /\ Len(f_prms) > 3

\* C6 (as stated): for every n >= 2, gen_primes_up_to(n) returns exactly the
\* primes up to n, ascending.
C6_ExactlyPrimesUpToN ==
    g_pc # "loop" => (g_pc = "done" /\ g_prms = PrimesFrom(2, g_n))

\* C6 (amended): for every n >= 5, gen_primes_up_to(n) returns exactly the
\* primes up to n, each once and ascending; for n in 2..4 it returns the
\* starter table 2, 3, 5.
C6_ExactlyPrimesFromFive ==
    g_pc # "loop" =>
        /\ g_pc = "done"
        /\ g_n >= 5 => (g_prms = PrimesFrom(2, g_n) /\ StrictlyIncreasing(g_prms))
        /\ g_n < 5 => g_prms = STARTER_PRIMES

\* the table up to the prime 53 was made, in more than one pass of the loop
C6_Witness ==
    /\ g_pc = "done" /\ g_n = 53
    /\ Len(g_prms) = 16 /\ Last(g_prms) = 53 /\ g_prms[10] = 29

\* C7 (as stated): parallel_calc_primes(nthreads, N) returns for every
\* nthreads >= 1 and N >= 2, and the table it returns is the ascending list
\* of all primes up to N. (A receive that times out is left aside.)
C7_ReturnsCompleteTable ==
    /\ p_pc = "panic" => p_cause = "timeout"
    /\ p_pc = "returned" => p_prms = PrimesFrom(2, p_n)

\* the shard results in shard order, the first m of them
RECURSIVE ShardsInOrder(_)
ShardsInOrder(m) ==
    IF m = 0 THEN <<>>
    ELSE ShardsInOrder(m - 1)
            \o gen_primes_in_range(p_base, p_pbr, p_ranges[m].lower, p_ranges[m].upper).prms

\* C8: whatever the interleaving of the workers, the coordinator appends the
\* shard results in ascending shard index t + nthreads*k, so the merged table
\* is the base table followed by the shard results in shard order, the same
\* for every schedule, and strictly increasing.
C8_FixedMergeOrder ==
    p_pc \in {"collect", "join", "returned", "panic"} =>
        /\ \A i \in 1..Len(p_log) : p_log[i] = i - 1
        /\ p_ranges # <<>> => p_prms = p_base \o ShardsInOrder(Len(p_log))
        /\ StrictlyIncreasing(p_prms)

\* two workers: the second has two chunks waiting in its channel while the
\* coordinator, past the first round, waits for the first
C8_Witness ==
    /\ p_pc = "collect" /\ p_nthreads = 2 /\ p_t = 0 /\ p_k >= 1
    /\ p_chan[0] = <<>> /\ Len(p_chan[1]) >= 2
    /\ Len(p_log) = 2 * p_k /\ Len(p_prms) > Len(p_base)

\* C9 (as stated): with a table that is the complete list of primes up to
\* its last entry, factor(n, table) never returns AlgorithmFailed.
C9_NeverAlgorithmFailed == f_result # "AlgorithmFailed"

\* C10: factor(n, table) returns NotEnoughPrimesToFactorIt exactly when the
\* table's largest prime P has P*P < n, and then before any trial division,
\* whatever the prime factors of n are.
C10_NotEnoughIffSquareBelowN ==
    f_pc = "done" =>
        /\ (f_result = "NotEnoughPrimesToFactorIt") <=> ~CoversSqrt(U32ToInt(f_n), f_prms)
        /\ f_result = "NotEnoughPrimesToFactorIt" => (f_divs = 0 /\ f_factors = <<>>)

\* 8 = 2 * 2 * 2 was refused with the table 2, which holds its only factor
C10_Witness ==
    /\ f_pc = "done" /\ f_result = "NotEnoughPrimesToFactorIt"
    /\ f_n = U32Of(8) /\ f_prms = <<2>> /\ f_divs = 0
\* the table's largest prime P has P * P >= n, n as halves
CoversSqrtU32(n, prms) ==
    LET sq == U32Square(Last(prms))
    IN  sq.ovf \/ ~U32Less(sq.v, n)

\* n, a u32 as halves, is prime: above 1 and with no divisor in 2..2^16 - 1
\* other than itself
U32IsPrime(n) ==
    IF n.hi < Pow2(14) THEN IsPrimeNat(U32ToInt(n))
    ELSE \A d \in 2..(HALF - 1) : U32DivMod(n, d).r # 0

\* n, as halves, is an entry of the table
InTable(n, prms) == \E i \in 1..Len(prms) : U32Of(prms[i]) = n

\* C11 (as stated): with a complete table whose largest prime P has
\* P * P >= n, factor(n, table) returns NIsBigPrime exactly when n is a prime
\* that is not in the table, and returns no factor index then.
C11_NIsBigPrimeIffPrimeBeyondTable ==
    (f_pc = "done" /\ CoversSqrtU32(f_n, f_prms)) =>
        /\ (f_result = "NIsBigPrime") <=> (U32IsPrime(f_n) /\ ~InTable(f_n, f_prms))
        /\ f_result = "NIsBigPrime" => f_factors = <<>>

\* C12 (as stated): decode_factors on a buffer that ends before all expected
\* fields are read (a proper prefix of an encode_factors output, the empty
\* buffer included) fails with an error reported to its caller and never
\* crashes the process.  decode_factors returns a Vec<u32> or panics, so the
\* claim leaves a shortened buffer neither outcome.
C12_TruncatedDecodeReportsError ==
    enc_status \notin {"trunc_decoded", "trunc_panic"}

\* every shard result was received and appended, once each, and nothing
\* sent is left in a channel
AllShardsAppended ==
    /\ Len(p_log) = p_nthreads * p_count
    /\ {p_log[i] : i \in 1..Len(p_log)} = 0..((p_nthreads * p_count) - 1)
    /\ \A t \in 0..(p_nthreads - 1) : p_wpos[t] = p_count /\ p_chan[t] = <<>>
    /\ Len(p_prms) >= Len(p_base)

\* a failure of the run: a worker that panicked on a shard, or a receive
\* that timed out or found its channel closed
RunFailed ==
    \/ \E t \in DOMAIN p_wstate : p_wstate[t] = "panicked"
    \/ p_cause \in {"timeout", "disconnected"}

\* C13: parallel_calc_primes has no partial result: a failed shard
\* generation or a failed receive aborts the run (the coordinator panics
\* and stays panicked, no table is returned), and a returned table holds
\* every one of the nthreads * per_thread_range_count shard results.
C13_NoPartialResult ==
    /\ [](p_pc = "returned" => AllShardsAppended)
    /\ [](RunFailed => p_pc # "returned")
    /\ [](p_cause \in {"timeout", "disconnected"} => p_pc = "panic")
    /\ [][p_pc = "panic" => p_pc' = "panic"]_vars

\* a run of two threads returned its table
C13_Witness ==
    /\ p_pc = "returned" /\ p_nthreads = 2
    /\ Len(p_log) = 2 * MIN_PER_THREAD_RANGE_COUNT

\* a receive timed out and the run was aborted
C13_WitnessAbort == p_pc = "panic" /\ p_cause = "timeout" /\ p_log # <<>>

\* every spawned worker has ended without a panic and nothing it sent is
\* left in its channel
WorkersJoinedAndDrained ==
    \A t \in 0..(p_nthreads - 1) : p_wstate[t] = "done" /\ p_chan[t] = <<>>

\* C14 (as stated): under fair scheduling and with no worker failure
\* parallel_calc_primes eventually returns, and at the moment of return
\* every spawned worker has terminated and been joined and no sent message
\* is left unreceived.
C14_EventuallyReturns ==
    /\ <>(p_pc = "returned")
    /\ [](p_pc = "returned" => WorkersJoinedAndDrained)

\* the integer x lies in the closed range r
ShardContains(r, x) ==
    ~U32Less(U32Of(x), U32Of(r.lower)) /\ ~U32Less(RangeUpper(r), U32Of(x))

\* the returned ranges are s_chunks ranges in ascending order, every integer
\* of [s_lower, s_upper] lies in exactly one of them, and a range that holds
\* an integer lies inside [s_lower, s_upper]
ShardsPartition ==
    /\ Len(s_ranges) = s_chunks
    /\ \A j \in 1..(s_chunks - 1) : s_ranges[j].lower <= s_ranges[j + 1].lower
    /\ \A x \in s_lower..s_upper :
           Cardinality({j \in 1..s_chunks : ShardContains(s_ranges[j], x)}) = 1
    /\ \A j \in 1..s_chunks :
           ShardContains(s_ranges[j], s_ranges[j].lower)
               => /\ s_lower <= s_ranges[j].lower
                  /\ ~U32Less(U32Of(s_upper), RangeUpper(s_ranges[j]))

\* C15 (as stated): for every chunks >= 1 and lower <= upper,
\* shard_prime_calc returns chunks closed ranges in ascending order that
\* partition [lower, upper], and the candidate count taken over them
\* satisfies the assertion of parallel_calc_primes.
C15_ShardsPartitionAndCountHolds ==
    /\ s_pc # "panic"
    /\ s_pc \in {"count", "done"} => ShardsPartition

\* write_primes returned Ok for a non-empty table and read_primes has run
WroteAndRead == io_pc = "done" /\ io_wres = "Ok" /\ io_prms # <<>>

\* the read returned the table written; the file holds the 4-byte record
\* of each entry, most significant byte first, in table order and nothing
\* else; the reader's record count is the file size over 4
RoundTripExact ==
    /\ io_read = [ok |-> TRUE, prms |-> io_prms]
    /\ fs_file.exists /\ fs_file.tail = 0 /\ Len(fs_file.recs) = Len(io_prms)
    /\ \A i \in 1..Len(io_prms) :
           /\ fs_file.recs[i].reps = io_prms[i].reps
           /\ fs_file.recs[i].rec[1] = io_prms[i].v.hi \div 256
           /\ fs_file.recs[i].rec[2] = io_prms[i].v.hi % 256
           /\ fs_file.recs[i].rec[3] = io_prms[i].v.lo \div 256
           /\ fs_file.recs[i].rec[4] = io_prms[i].v.lo % 256
    /\ prime_count(fs_file) = RunsLen(fs_file.recs)

\* C17 (as stated): for every non-empty table T and every upper bound u,
\* write_primes(T, u) followed by read_primes(u) returns exactly T; the file
\* holds exactly 4*|T| bytes, the big-endian record of each entry in table
\* order with no header, and the record count is the file size over 4.
C17_RoundTripAnyTable == WroteAndRead => RoundTripExact

\* C17 (amended): the same for every non-empty table of fewer than 2^30
\* entries (a file below 4 GiB).
C17_RoundTripBelow4GiB ==
    (WroteAndRead /\ RunsLen(io_prms) < Pow2(30)) => RoundTripExact

\* a table of two entries, u32::MAX first, was written and read back
C17_Witness ==
    /\ WroteAndRead /\ Len(io_prms) = 2 /\ io_prms[1].v = U32Max
    /\ io_prms[2].v = U32Of(258) /\ io_read.prms = io_prms

\* s is an initial part of t
IsPrefixOf(s, t) == Len(s) <= Len(t) /\ s = SubSeq(t, 1, Len(s))

\* the stage name occurs in the trace
Entered(stage) == \E i \in 1..Len(d_trace) : d_trace[i] = stage

\* the stages are entered in the order Load, Generate, Persist, Use, the
\* middle two together or not at all
StagesInOrder ==
    \/ IsPrefixOf(d_trace, <<"read_primes", "use">>)
    \/ IsPrefixOf(d_trace, <<"read_primes", "parallel_calc_primes", "write_primes", "use">>)

\* a read that failed or gave no table is followed by the generation, and
\* the table is used only after it was written
FailedReadGenerates ==
    d_read \in {"Err", "OkEmpty"} =>
        /\ Entered("parallel_calc_primes")
        /\ Entered("use") => d_wres = "Ok"

\* a write that failed ends the run before the table is used
FailedWriteAborts ==
    d_wres \in {"Err", "panic"} => (d_pc = "abort" /\ ~Entered("use"))

C16_WitnessRead == d_pc = "done" /\ d_read = "Ok" /\ d_trace = <<"read_primes", "use">>

\* C18 (as stated): parallel_factor_all returns normally only if every
\* integer k in [2, N] was factored and the product of its factors asserted
\* equal to k, each shard's upper bound and N itself included.
C18_ReturnMeansAllChecked ==
    fa_pc = "returned" => fa_checked = 2..fa_n

\* the smaller of two lengths
Min(a, b) == IF a < b THEN a ELSE b

\* C19: whatever append / set / flip / clip (and null / from_str) did
\* before, clip(n) returns and leaves a buffer of length exactly n whose bits
\* below min(n, old length) are the old ones and whose bits from the old
\* length up to n are all zero, and a second clip(n) changes nothing.
C19_ClipSetsLengthKeepsBitsZeroFills ==
    bb_op.name = "clip" =>
        LET n == bb_op.arg
            old == bb_prev.cnt
        IN  /\ bb_pc = "ok"
            /\ bb_bs.cnt = n
            /\ \A k \in 0..(Min(n, old) - 1) : DbsGet(bb_bs, k) = DbsGet(bb_prev, k)
            /\ \A k \in old..(n - 1) : ~DbsGet(bb_bs, k)
            /\ DbsClip(bb_bs, n) = [ok |-> TRUE, bs |-> bb_bs]

\* C19 witness: a clip has grown the buffer over a position that held a 1
\* bit before an earlier shrink.
C19_Witness ==
    /\ bb_op.name = "clip" /\ bb_pc = "ok" /\ bb_prev.cnt < bb_op.arg
    /\ \E k \in bb_prev.cnt..(bb_op.arg - 1) : k \in bb_ones

\* C20: after any sequence of null / append / set / flip / clip / from_str
\* the backing bytes hold at least cnt bits and are exactly ceil(m / 8)
\* where m is the largest length the DynBitString has had, no operation on
\* it makes the backing store shorter, and the capacity assertion of append
\* never fails.
C20_CapacityIsCeilOfMaxLength ==
    /\ Len(bb_bs.b) * BITS_PER_BYTE >= bb_bs.cnt
    /\ Len(bb_bs.b) = (bb_max + (BITS_PER_BYTE - 1)) \div BITS_PER_BYTE
    /\ bb_op.name \in {"append", "set", "flip", "clip"} => Len(bb_bs.b) >= Len(bb_prev.b)
    /\ bb_pc # "panic_capacity"

\* C20 witness: an append on a byte boundary found more backing bytes than
\* the length needs, so its capacity assertion was evaluated, and held.
C20_Witness ==
    /\ bb_op.name = "append" /\ bb_pc = "ok"
    /\ bb_prev.cnt % BITS_PER_BYTE = 0
    /\ Len(bb_prev.b) * BITS_PER_BYTE > bb_prev.cnt

(***************************************************************************)
(* gen_primes_in_range alone, called with the table of all the primes up   *)
(* to primes_up_to and any two bounds                                      *)
(***************************************************************************)
RngInit ==
    /\ \E primes_up_to \in 0..MaxRangeTable, lower_bound, upper_bound \in 0..MaxRangeUpper :
         gr_args = [old_prms |-> PrimesFrom(2, primes_up_to), primes_up_to |-> primes_up_to,
                    lower_bound |-> lower_bound, upper_bound |-> upper_bound]
    /\ gr_pc = "call" /\ gr_res = NotCalled

RngOther ==
    <<overflow_checks, early_vars, shard_vars, file_vars, drv_vars, fa_vars, bb_vars,
      pp_in, pp_iap, pp_exp, pp_bs, pp_fmt, rev_vars>>

\* the entry check of lines 138-139
PrimesNotEnoughForRange(primes_up_to, upper_bound) == primes_up_to * primes_up_to < upper_bound

\* gen_primes_in_range(&old_prms, primes_up_to, lower_bound, upper_bound);
\* past the entry check old_prms[0] of line 147 panics on an empty table
RngCall ==
    /\ gr_pc = "call"
    /\ IF ~PrimesNotEnoughForRange(gr_args.primes_up_to, gr_args.upper_bound)
          /\ gr_args.old_prms = <<>>
       THEN gr_pc' = "panic" /\ gr_res' = gr_res
       ELSE /\ gr_pc' = "returned"
            /\ gr_res' = gen_primes_in_range(gr_args.old_prms, gr_args.primes_up_to,
                                             gr_args.lower_bound, gr_args.upper_bound)
    /\ UNCHANGED <<gr_args, RngOther>>

RngNext == RngCall

InitRange ==
    RngInit /\ EarlyIdle /\ ShardIdle /\ FileIdle /\ DrvIdle /\ FaIdle /\ BbIdle
        /\ pp_in = <<>> /\ pp_iap = NotCalled /\ pp_exp = NotCalled /\ pp_bs = NotCalled
        /\ pp_fmt = NotCalled /\ RevIdle /\ overflow_checks \in BOOLEAN

SpecRange == InitRange /\ [][RngNext]_vars

(***************************************************************************)
(* factor(n, prms) followed by encode_factors on its result, as the        *)
(* drivers do (main.rs lines 80-84), with the complete table up to 65537   *)
(***************************************************************************)
\* 2 * 3 * ... * 23, the largest product of distinct primes from 2 on that
\* fits a u32 nine primes long
Primorial9 == 2 * 3 * 5 * 7 * 11 * 13 * 17 * 19 * 23

\* the operands: 2..MaxFeN, every power of 2, the product of the first nine
\* primes and its multiples by 2, 3, 5 and 7, u32::MAX, and 65539 (a prime
\* beyond the table) and its double, for which factor does not return Ok
FeNs ==
    {U32Of(n) : n \in 2..MaxFeN} \cup {U32Pow(k) : k \in 1..31}
        \cup {U32Of(Primorial9 * m) : m \in {1, 2, 3, 5, 7}} \cup {U32Max}
        \cup {U32Of(HALF + 3), U32Of(2 * (HALF + 3))}

FeInit ==
    /\ f_prms = FactorWideTable(HALF + 1) /\ f_n \in FeNs
    /\ f_pc = "start" /\ f_idx = 0 /\ f_num = U32Zero /\ f_factors = <<>> /\ f_divs = 0
    /\ f_result = "none"

\* let f = factor(n, &prms).unwrap();
\* let prmpwrs = factors_to_int_as_prms(&f); let bs = encode_factors(&f);
FeEncode ==
    /\ f_pc = "done" /\ f_result = "Ok" /\ pp_bs.st = "none"
    /\ pp_in' = f_factors
    /\ pp_iap' = ValueIn(factors_to_int_as_prms(f_factors),
                         LAMBDA r : IF r.ok
                                    THEN [st |-> "ok", prm_powers |-> r.prm_powers]
                                    ELSE [st |-> "panic"])
    /\ pp_bs' = ValueIn(encode_factors(f_factors),
                        LAMBDA r : IF r.ok THEN [st |-> "ok", bs |-> r.bs]
                                   ELSE [st |-> "panic"])
    /\ UNCHANGED <<overflow_checks, early_vars, shard_vars, file_vars, drv_vars, fa_vars,
                   bb_vars, rng_vars, rev_vars, pp_exp, pp_fmt>>

FeNext == FactorEnter \/ FactorLoopTop \/ FactorScan \/ FactorFinish \/ FeEncode

InitFactorEncode ==
    FeInit /\ CodecIdle /\ EncIdle /\ GenIdle /\ ParIdle /\ LaterIdle /\ overflow_checks \in BOOLEAN

SpecFactorEncode == InitFactorEncode /\ [][FeNext]_vars

(***************************************************************************)
(* One value appended by both revisions of the general codec, each to its  *)
(* own buffer, and read back by both readers from both buffers             *)
(***************************************************************************)
Revisions == {"encoding_uint", "encoding_u32"}

\* what the buffers hold before the value: nothing, or one 1 bit
RevPrefix(n) == IF n = 0 THEN DbsNull ELSE DbsAppend(DbsNull, TRUE)

RevInit ==
    /\ rv_v \in U32Samples /\ rv_cur \in {0, 1}
    /\ rv_uint = NotCalled /\ rv_u32 = NotCalled
    /\ rv_reads = [p \in Revisions \X Revisions |-> NotCalled]

RevOther ==
    <<overflow_checks, early_vars, shard_vars, file_vars, drv_vars, fa_vars, bb_vars,
      pp_in, pp_iap, pp_exp, pp_bs, pp_fmt, rng_vars>>

\* the buffer a revision wrote
RevBuffer(writer) == IF writer = "encoding_uint" THEN rv_uint ELSE rv_u32

\* encoding_uint::append_uint32(rv_v, &mut length_and_val)
RevAppendUint ==
    /\ rv_uint.st = "none"
    /\ rv_uint' = [st |-> "ok", bs |-> encoding_uint_append_uint32(rv_v, RevPrefix(rv_cur))]
    /\ UNCHANGED <<rv_v, rv_cur, rv_u32, rv_reads, RevOther>>

\* t.append_uint32(rv_v) on a U32Encoding
RevAppendU32 ==
    /\ rv_u32.st = "none"
    /\ rv_u32' = LET r == U32Append(RevPrefix(rv_cur), rv_v)
                 IN  IF r.ok THEN [st |-> "ok", bs |-> r.bs] ELSE [st |-> "panic"]
    /\ UNCHANGED <<rv_v, rv_cur, rv_uint, rv_reads, RevOther>>

\* encoding_uint::read_uint32(&buffer, &mut cursor) on the buffer of a writer
RevReadUint(writer) ==
    /\ RevBuffer(writer).st = "ok" /\ rv_reads[<<"encoding_uint", writer>>].st = "none"
    /\ rv_reads' = [rv_reads EXCEPT ![<<"encoding_uint", writer>>] =
                        LET r == encoding_uint_read_uint32(RevBuffer(writer).bs, rv_cur)
                        IN  IF r.ok THEN [st |-> "ok", v |-> r.v, cur |-> r.cur]
                            ELSE [st |-> "panic"]]
    /\ UNCHANGED <<rv_v, rv_cur, rv_uint, rv_u32, RevOther>>

\* U32Encoding::from_bitstr_encoding(buffer).read_uint32(&mut cursor)
RevReadU32(writer) ==
    /\ RevBuffer(writer).st = "ok" /\ rv_reads[<<"encoding_u32", writer>>].st = "none"
    /\ rv_reads' = [rv_reads EXCEPT ![<<"encoding_u32", writer>>] =
                        LET r == U32Read(RevBuffer(writer).bs, rv_cur)
                        IN  IF r.ok THEN [st |-> "ok", v |-> r.v, cur |-> r.cur]
                            ELSE [st |-> "panic"]]
    /\ UNCHANGED <<rv_v, rv_cur, rv_uint, rv_u32, RevOther>>

RevNext ==
    \/ RevAppendUint
    \/ RevAppendU32
    \/ \E writer \in Revisions : RevReadUint(writer)
    \/ \E writer \in Revisions : RevReadU32(writer)

InitRevisions ==
    RevInit /\ EarlyIdle /\ ShardIdle /\ FileIdle /\ DrvIdle /\ FaIdle /\ BbIdle
        /\ pp_in = <<>> /\ pp_iap = NotCalled /\ pp_exp = NotCalled /\ pp_bs = NotCalled
        /\ pp_fmt = NotCalled /\ RngIdle /\ overflow_checks \in BOOLEAN

SpecRevisions == InitRevisions /\ [][RevNext]_vars

(***************************************************************************)
(* Claims about parsing, preconditions and the layout of the encodings     *)
(***************************************************************************)
\* the character 'b' followed only by '0' / '1' characters (possibly none)
IsBitStringText(str) ==
    /\ str # <<>> /\ str[1] = "b"
    /\ \A i \in 2..Len(str) : str[i] \in {"0", "1"}

\* C21: from_str(s) succeeds exactly when s is 'b' followed only by '0' / '1'
\* characters and otherwise returns an error without touching a buffer; on
\* success the buffer has length |s| - 1 with bit i equal to character i + 1
\* and formats as s again; and from_str(to_string(b)) equals b for every
\* buffer b the operations make.
C21_FromStrParsesExactlyBitTexts ==
    /\ bb_op.name = "from_str" =>
           /\ IsBitStringText(bb_op.arg)
           /\ bb_bs.cnt = Len(bb_op.arg) - 1
           /\ \A i \in 0..(bb_bs.cnt - 1) : DbsGet(bb_bs, i) = (bb_op.arg[i + 2] = "1")
           /\ DbsToString(bb_bs) = bb_op.arg
    /\ bb_op.name = "from_str_err" =>
           /\ ~IsBitStringText(bb_op.arg)
           /\ bb_pc = "ok" /\ bb_bs = bb_prev
    /\ LET back == DbsFromStr(DbsToString(bb_bs))
       IN  back.ok /\ DbsEq(back.bs, bb_bs)

\* C21 witness: from_str has parsed a text of MaxStrLen bits, zeros and ones
\* among them
C21_Witness ==
    /\ bb_op.name = "from_str" /\ bb_bs.cnt = MaxStrLen
    /\ \E i, j \in 0..(bb_bs.cnt - 1) : DbsGet(bb_bs, i) /\ ~DbsGet(bb_bs, j)

\* C21 witness: a buffer with more backing bytes than its length needs and
\* a 1 bit went through to_string and from_str
C21_WitnessRoundTrip ==
    /\ bb_op.name = "clip" /\ bb_pc = "ok" /\ bb_bs.cnt > 0
    /\ Len(bb_bs.b) * BITS_PER_BYTE >= bb_bs.cnt + BITS_PER_BYTE
    /\ \E i \in 0..(bb_bs.cnt - 1) : DbsGet(bb_bs, i)

\* the index a get / set / flip was called with
OpIndex(op) == IF op.name = "set" THEN op.arg[1] ELSE op.arg

\* a get / set / flip with index >= len(), a small-value append_uint32 of a
\* value >= 32 and an encode_factors of the empty list (or of a list that
\* makes it hand the small-value codec a value >= 32) have panicked, and
\* the buffer at hand is bit for bit (and byte for byte) what it was before
\* the call
ViolationLeftBufferUntouched ==
    /\ (bb_op.name \in {"get", "set", "flip"} /\ OpIndex(bb_op) >= bb_prev.cnt)
           => (bb_pc = "panic_index" /\ bb_bs = bb_prev)
    /\ (bb_op.name = "small_append" /\ bb_op.arg >= Pow2(5))
           => (bb_pc = "panic_small" /\ bb_bs = bb_prev)
    /\ (bb_op.name = "encode_factors" /\ bb_op.arg = <<>>)
           => (bb_pc = "panic_encode" /\ bb_bs = bb_prev)
    /\ (bb_op.name = "encode_factors" /\ bb_op.arg # <<>>
            /\ LET iap == factors_to_int_as_prms(bb_op.arg)
               IN  /\ iap.ok
                   /\ \/ Len(iap.prm_powers) - 1 >= Pow2(5)
                      \/ \E i \in 1..Len(iap.prm_powers) : iap.prm_powers[i].exp - 1 >= Pow2(5))
           => (bb_pc = "panic_encode" /\ bb_bs = bb_prev)

\* C22: a get / set / flip with index >= len(), a small-value append_uint32
\* of a value >= 32 and an encode_factors of the empty list each panic
\* before any bit of the buffer at hand is appended or changed,
\* encode_factors hands out an encoding only when none of its appends
\* panicked, and no call follows a panic.
C22_PreconditionViolationsAbortUntouched ==
    []ViolationLeftBufferUntouched /\ [][bb_pc = "ok"]_vars

\* C22 witness: a set at index len() that lies inside the backing bytes
\* has panicked on a buffer that holds bits
C22_Witness ==
    /\ bb_op.name = "set" /\ bb_pc = "panic_index"
    /\ bb_prev.cnt > 0 /\ bb_op.arg[1] < Len(bb_prev.b) * BITS_PER_BYTE
    /\ bb_op.arg[2]

\* C22 witness: the small-value append of 32 has panicked on a buffer that
\* holds bits
C22_WitnessSmall ==
    bb_op.name = "small_append" /\ bb_op.arg = Pow2(5) /\ bb_pc = "panic_small" /\ bb_prev.cnt > 0

\* C22 witness: encode_factors of the empty list has panicked
C22_WitnessEmpty ==
    bb_op.name = "encode_factors" /\ bb_op.arg = <<>> /\ bb_pc = "panic_encode" /\ bb_prev.cnt > 0

\* where the runs of equal entries of s start
RunStarts(s) == {i \in 1..Len(s) : i = 1 \/ s[i] # s[i - 1]}

\* the runs of a non-decreasing s in order: [idx, exp], idx repeated exp times
RunsOf(s) ==
    LET st == RunStarts(s)
        n == Cardinality(st)
        start(k) == IF k > n THEN Len(s) + 1
                    ELSE CHOOSE i \in st : Cardinality({j \in st : j <= i}) = k
    IN  [k \in 1..n |-> [idx |-> s[start(k)], exp |-> start(k + 1) - start(k)]]

\* the small-value code and the general code of a number, as bits
SmallCode(v) == DbsBits(SmallAppend(DbsNull, v).bs)
U32Code(d) == DbsBits(U32Append(DbsNull, U32Of(d)).bs)

\* the layout the encoding of s is said to have
ExpectedLayout(s) ==
    LET runs == RunsOf(s)
        n == Len(runs)
    IN  SmallCode(n - 1)
            \o FlatRange([k \in 1..n |-> SmallCode(runs[k].exp - 1)], 1, n)
            \o FlatRange([k \in 1..n |->
                    U32Code(runs[k].idx - (IF k = 1 THEN 0 ELSE runs[k - 1].idx))], 1, n)

\* the digits of a printed text, in order, as bits
PrintedBits(out) ==
    LET digits == SelectSeq(out, LAMBDA c : c \in {"0", "1"})
    IN  [i \in 1..Len(digits) |-> digits[i] = "1"]

\* how many bit groups a printed text holds
PrintedGroups(out) == Cardinality({i \in 1..Len(out) : out[i] = "b"})

RECURSIVE ExpSum(_, _, _)
ExpSum(prm_powers, lo, hi) ==
    IF lo > hi THEN 0
    ELSE IF lo = hi THEN prm_powers[lo].exp
    ELSE ExpSum(prm_powers, lo, (lo + hi) \div 2)
             + ExpSum(prm_powers, ((lo + hi) \div 2) + 1, hi)

\* a run list of s: not empty, indices strictly increasing, every exponent
\* at least 1, the exponents summing to |s|
IsRunListOf(prm_powers, s) ==
    /\ prm_powers # <<>>
    /\ \A i \in 2..Len(prm_powers) : prm_powers[i - 1].prm_idx < prm_powers[i].prm_idx
    /\ \A i \in 1..Len(prm_powers) : prm_powers[i].exp >= 1
    /\ ExpSum(prm_powers, 1, Len(prm_powers)) = Len(s)

\* C24 (as stated): for every non-empty non-decreasing index sequence s,
\* factors_to_int_as_prms(s) returns a non-empty list of (index, exponent)
\* pairs with strictly increasing indices, every exponent >= 1 and the
\* exponents summing to |s|, and repeating each index exponent times in list
\* order gives s back.
C24_TransformIsRunLengthCode ==
    /\ (pp_in # <<>> /\ pp_iap.st # "none")
           => (pp_iap.st = "ok" /\ IsRunListOf(pp_iap.prm_powers, pp_in))
    /\ (pp_in # <<>> /\ pp_exp.st # "none") => pp_exp.factors = pp_in

\* the bit length of a u32: the least L with v < 2^L
BitLengthOf(v) ==
    IF v.hi = 0
    THEN CHOOSE L \in 0..16 : v.lo < Pow2(L) /\ (L = 0 \/ v.lo >= Pow2(L - 1))
    ELSE 16 + (CHOOSE L \in 1..16 : v.hi < Pow2(L) /\ v.hi >= Pow2(L - 1))

\* bit i of a number below 2^31
NatBit(m, i) == (m \div Pow2(i)) % 2 = 1

\* the layout the general code of v is said to have
ExpectedU32Layout(v) ==
    LET L == BitLengthOf(v)
        m == (IF L > 1 THEN L ELSE 1) - 1
    IN  <<NatBit(m, 0), NatBit(m, 1), m >= 4>>
            \o (IF m >= 4 THEN <<NatBit(m, 2), NatBit(m, 3), NatBit(m, 4)>> ELSE <<>>)
            \o (IF L = 0 THEN <<FALSE>>
                ELSE [i \in 1..L |-> IF i <= 16 THEN NatBit(v.lo, i - 1)
                                     ELSE NatBit(v.hi, i - 17)])

\* the length the general code of v is said to have
ExpectedU32Length(v) ==
    LET L == BitLengthOf(v)
    IN  IF L <= 4 THEN 3 + (IF L > 1 THEN L ELSE 1) ELSE 6 + L

\* the bits entry i of written added to the buffer
WrittenBits(i) ==
    SubSeq(DbsBits(bstr), (IF i = 1 THEN 0 ELSE written[i - 1].end) + 1, written[i].end)

\* the text of a buffer that holds nothing but value v
AloneAs(v, text) ==
    (Len(written) = 1 /\ written[1].v = v) => DbsToString(bstr) = text

\* C25: U32Encoding::append_uint32(v) appends, to an empty buffer or after
\* what is there, the length field (max(L, 1) - 1 as 2 bits LSB first, a
\* flag that is 1 when more length bits follow, and then 3 more length bits
\* and no other flag) and the value LSB first in exactly L bits (one 0 bit
\* for v = 0): 3 + max(L, 1) bits when L <= 4 and 6 + L bits otherwise, L
\* being the bit length of v; 0, 1, 2, 7, 8 and 0xFFFFFFFF give b0000,
\* b0001, b10001, b010111, b1100001 and 38 one bits.
C25_U32LayoutIsLengthFieldThenValue ==
    \A i \in 1..Len(written) :
        written[i].kind = "u32" =>
            /\ WrittenBits(i) = ExpectedU32Layout(written[i].v)
            /\ Len(WrittenBits(i)) = ExpectedU32Length(written[i].v)
            /\ AloneAs(U32Zero, <<"b", "0", "0", "0", "0">>)
            /\ AloneAs(U32One, <<"b", "0", "0", "0", "1">>)
            /\ AloneAs(U32Of(2), <<"b", "1", "0", "0", "0", "1">>)
            /\ AloneAs(U32Of(7), <<"b", "0", "1", "0", "1", "1", "1">>)
            /\ AloneAs(U32Of(8), <<"b", "1", "1", "0", "0", "0", "0", "1">>)
            /\ AloneAs(U32Max, <<"b">> \o [k \in 1..38 |-> "1"])

\* C25 witness: a value of 5 significant bits or more was appended after
\* another value
C25_Witness ==
    /\ Len(written) = 2 /\ written[2].kind = "u32" /\ written[1].kind = "u32"
    /\ BitLengthOf(written[1].v) >= 5 /\ written[2].v = U32Of(8)

\* C25 witness: 0xFFFFFFFF alone in a buffer is 38 one bits
C25_WitnessMax ==
    /\ Len(written) = 1 /\ written[1].kind = "u32" /\ written[1].v = U32Max
    /\ bstr.cnt = 38 /\ \A k \in 0..37 : DbsGet(bstr, k)

\* the bits a small value must take: bit 0, a flag, bits 1 and 2, a flag,
\* bits 3 and 4; a flag is 1 when bits of v are still to come
ExpectedSmallLayout(v) ==
    <<NatBit(v, 0), v >= 2>>
    \o (IF v >= 2 THEN <<NatBit(v, 1), NatBit(v, 2), v >= 8>> ELSE <<>>)
    \o (IF v >= 8 THEN <<NatBit(v, 3), NatBit(v, 4)>> ELSE <<>>)

\* 2 bits for 0..1, 5 bits for 2..7 and 7 bits for 8..31
ExpectedSmallLength(v) == IF v < 2 THEN 2 ELSE IF v < 8 THEN 5 ELSE 7

\* C26: for every v in 0..31 SmallIntEncoding::append_uint32(v) appends bit 0
\* of v and a flag; after a continue flag bits 1 and 2 and a second flag;
\* after a second continue flag bits 3 and 4 and no flag; a flag is 1
\* exactly when the bits of v not yet written are non-zero, so that 0..1
\* take 2 bits, 2..7 take 5 and 8..31 take 7; 0, 1, 2, 7, 16 and 31 give
\* b00, b10, b01100, b11110, b0100101 and b1111111.
C26_SmallLayoutIsOneTwoTwo ==
    \A i \in 1..Len(written) :
        written[i].kind = "small" =>
            /\ written[i].v.hi = 0 /\ written[i].v.lo < Pow2(5)
            /\ WrittenBits(i) = ExpectedSmallLayout(written[i].v.lo)
            /\ Len(WrittenBits(i)) = ExpectedSmallLength(written[i].v.lo)
            /\ AloneAs(U32Zero, <<"b", "0", "0">>)
            /\ AloneAs(U32One, <<"b", "1", "0">>)
            /\ AloneAs(U32Of(2), <<"b", "0", "1", "1", "0", "0">>)
            /\ AloneAs(U32Of(7), <<"b", "1", "1", "1", "1", "0">>)
            /\ AloneAs(U32Of(16), <<"b", "0", "1", "0", "0", "1", "0", "1">>)
            /\ AloneAs(U32Of(31), <<"b", "1", "1", "1", "1", "1", "1", "1">>)

\* C26 witness: a value of 8 or more was appended after a value of 2..7
C26_Witness ==
    /\ Len(written) = 2 /\ written[1].kind = "small" /\ written[2].kind = "small"
    /\ written[1].v.lo \in 2..7 /\ written[2].v.lo >= 8

\* C26 witness: 16 alone in a buffer reads b0100101
C26_WitnessSixteen ==
    /\ Len(written) = 1 /\ written[1].kind = "small" /\ written[1].v = U32Of(16)
    /\ DbsToString(bstr) = <<"b", "0", "1", "0", "0", "1", "0", "1">>

\* the sum of the first k chunk widths
WidthSum(widths, k) == IF k = 0 THEN 0 ELSE widths[1] + (IF k = 1 THEN 0 ELSE widths[2] + (IF k = 2 THEN 0 ELSE widths[3]))

\* a value written in chunks of the given widths, LSB first, from chunk k on:
\* after every chunk but the last a flag, 0 when nothing of v remains and 1
\* followed by the next chunk otherwise
RECURSIVE ChunkedFrom(_, _, _)
ChunkedFrom(v, widths, k) ==
    LET done == WidthSum(widths, k - 1)
        chunk == [j \in 1..widths[k] |-> NatBit(v, done + j - 1)]
        rest == v \div Pow2(done + widths[k])
    IN  IF k = Len(widths) THEN chunk
        ELSE IF rest = 0 THEN chunk \o <<FALSE>>
        ELSE chunk \o <<TRUE>> \o ChunkedFrom(v, widths, k + 1)

\* C27 as stated: the small encoder writes chunks of 2, 2 and 2 bits, each
\* LSB first, a terminator 0 or a continuation 1 after chunks 1 and 2 and no
\* flag after chunk 3.
C27_ChunksOfTwoBits ==
    \A i \in 1..Len(written) :
        written[i].kind = "small" =>
            WrittenBits(i) = ChunkedFrom(written[i].v.lo, <<2, 2, 2>>, 1)

\* C27 amended: the small encoder writes chunks of 1, 2 and 2 bits, each LSB
\* first: chunk 1 is the lowest bit, followed by a terminator 0 when the
\* remaining value is zero and otherwise by a continuation 1 and the 2 bits
\* of chunk 2, followed again by terminator 0 or continuation 1, and in the
\* latter case by the final 2 bits of chunk 3 with no trailing flag.
C27_ChunksOfOneTwoTwoBits ==
    \A i \in 1..Len(written) :
        written[i].kind = "small" =>
            WrittenBits(i) = ChunkedFrom(written[i].v.lo, <<1, 2, 2>>, 1)

\* C27 witness: a value that stops after chunk 1 follows one that needs all
\* three chunks
C27_Witness ==
    /\ Len(written) = 2 /\ written[1].kind = "small" /\ written[2].kind = "small"
    /\ written[1].v.lo >= 8 /\ written[2].v.lo < 2

\* C28 as stated: gen_primes_in_range returns PrimesNotEnoughForRange
\* exactly when primes_up_to squared is below upper_bound, and otherwise,
\* given all the primes from 2 through primes_up_to, it returns for every
\* lower_bound <= upper_bound exactly the primes of [lower_bound,
\* upper_bound], ascending and each once.
C28_RangeCallReturnsThePrimes ==
    gr_pc \in {"returned", "panic"} =>
        LET enough == ~PrimesNotEnoughForRange(gr_args.primes_up_to, gr_args.upper_bound)
        IN  /\ (gr_pc = "returned" /\ ~gr_res.ok) <=> ~enough
            /\ (enough /\ gr_args.lower_bound <= gr_args.upper_bound)
                   => /\ gr_pc = "returned" /\ gr_res.ok
                      /\ gr_res.prms = PrimesFrom(gr_args.lower_bound, gr_args.upper_bound)

\* nothing larger fits a u32: a tenth distinct prime would be 29 or more, and
\* 29 times the product of the first nine primes is 2^32 or more (the
\* product is above 2^16 * (2^16 \div 29 + 1)); an exponent of 32 needs
\* 2^32, and 2^31 doubled does not fit
NoLargerFactorisationFits ==
    /\ Len(PrimesFrom(2, 29)) = 10
    /\ Primorial9 \div HALF >= (HALF \div PrimesFrom(2, 29)[10]) + 1
    /\ U32Add(U32Pow(31), U32Pow(31)).ovf

\* C29: whenever factor returns Ok for an n in 2..2^32 - 1, the run list of
\* its result has run_count - 1 <= 31 and every exponent - 1 <= 31, the
\* numbers handed to the small-value codec, so that encode_factors on the
\* result does not trip the assertion v_in < 32 and returns a bit string.
C29_FactorResultsFitSmallCodec ==
    /\ NoLargerFactorisationFits
    /\ (f_pc = "done" /\ f_result = "Ok") =>
           LET runs == RunsOf(f_factors)
           IN  /\ Len(runs) >= 1 /\ Len(runs) - 1 <= 31
               /\ \A k \in 1..Len(runs) : runs[k].exp >= 1 /\ runs[k].exp - 1 <= 31
    /\ pp_bs.st # "none" =>
           /\ pp_bs.st = "ok" /\ pp_iap.st = "ok"
           /\ Len(pp_iap.prm_powers) - 1 < Pow2(5)
           /\ \A k \in 1..Len(pp_iap.prm_powers) : pp_iap.prm_powers[k].exp - 1 < Pow2(5)

\* C29 witness: 2^31, whose one run is 31 long, was factored and encoded
C29_Witness ==
    /\ f_n = U32Pow(31) /\ f_result = "Ok"
    /\ pp_bs.st = "ok" /\ pp_iap.st = "ok" /\ pp_iap.prm_powers[1].exp = 31

\* C29 witness: the product of the first nine primes, of nine runs, was
\* factored and encoded
C29_WitnessNineRuns ==
    /\ f_n = U32Of(Primorial9) /\ f_result = "Ok"
    /\ pp_bs.st = "ok" /\ pp_iap.st = "ok" /\ Len(pp_iap.prm_powers) = 9

\* the bits a revision appended for the value
RevAppended(writer) ==
    SubSeq(DbsBits(RevBuffer(writer).bs), rv_cur + 1, RevBuffer(writer).bs.cnt)

\* a read that took place gave the value back and stopped at the end
RevReadBack(reader, writer) ==
    rv_reads[<<reader, writer>>].st # "none" =>
        /\ rv_reads[<<reader, writer>>].st = "ok"
        /\ rv_reads[<<reader, writer>>].v = rv_v
        /\ rv_reads[<<reader, writer>>].cur = RevBuffer(writer).bs.cnt

\* C30: for every v < 2^16 encoding_uint::append_uint32 (checkpoints 1, 3,
\* 5) and U32Encoding::append_uint32 (checkpoints 1, 5) append the same bits
\* and the read_uint32 of each revision decodes the output of the other (and
\* its own) to v; for every v >= 2^16 the output of encoding_uint is exactly
\* one bit longer, 39 against 38 bits for 0xFFFFFFFF.
C30_RevisionsAgreeBelowTwoToThe16 ==
    /\ rv_uint.st \in {"none", "ok"} /\ rv_u32.st \in {"none", "ok"}
    /\ (rv_uint.st = "ok" /\ rv_u32.st = "ok") =>
           IF rv_v.hi = 0
           THEN /\ RevAppended("encoding_uint") = RevAppended("encoding_u32")
                /\ \A reader \in Revisions, writer \in Revisions : RevReadBack(reader, writer)
           ELSE /\ Len(RevAppended("encoding_uint")) = Len(RevAppended("encoding_u32")) + 1
                /\ rv_v = U32Max => /\ Len(RevAppended("encoding_uint")) = 39
                                    /\ Len(RevAppended("encoding_u32")) = 38
    /\ rv_v.hi = 0 => \A reader \in Revisions, writer \in Revisions : RevReadBack(reader, writer)

\* C30 witness: 65535, the largest value the revisions agree on, was written
\* by both and each reader read the buffer of the other revision
C30_Witness ==
    /\ rv_v = U32PowMinus1(16) /\ rv_uint.st = "ok" /\ rv_u32.st = "ok"
    /\ rv_reads[<<"encoding_uint", "encoding_u32">>].st = "ok"
    /\ rv_reads[<<"encoding_u32", "encoding_uint">>].st = "ok"
    /\ Len(RevAppended("encoding_uint")) = 22

\* C30 witness: 0xFFFFFFFF was written by both revisions
C30_WitnessMax ==
    /\ rv_v = U32Max /\ rv_uint.st = "ok" /\ rv_u32.st = "ok"
    /\ Len(RevAppended("encoding_uint")) = 39

\* C30 witness: 65536, the least value the revisions differ on, was written
\* by both
C30_WitnessFirstWide ==
    /\ rv_v = U32Pow(16) /\ rv_uint.st = "ok" /\ rv_u32.st = "ok" /\ rv_cur = 1
====
